---- MODULE Spec2Model ----
(***************************************************************************)
(* Model of the taxonomy builder's pure core: page parsing                 *)
(* (parse_directory), text and URL normalisation (clean, slugify,          *)
(* canonicalize), lineage resolution (attach_lineage) and deduplication    *)
(* (dedupe_items).                                                         *)
(*                                                                         *)
(* A Python str is a sequence of characters.  An ASCII character is the    *)
(* one-character string; the few non-ASCII and invisible characters the    *)
(* normalisers treat specially are the named tokens below.                 *)
(***************************************************************************)
EXTENDS Integers, Sequences, FiniteSets, TLC

VARIABLES
    pc,         \* position of the run: "parse", "blocks", "lineage", "dedupe",
                \* "done"; "canon", "again", "stable" for the URL runs
    html,       \* the page handed to parse_directory
    blk,        \* parse_directory: index of the next block of the page
    raw,        \* the raw item list: parse_directory's `items`, then the
                \* input of attach_lineage
    base_url,   \* attach_lineage's (or canonicalize's) base argument
    href_arg,    \* canonicalize's href argument
    url1,       \* what canonicalize(base_url, href_arg) returned
    url2,       \* what canonicalize returned when given `url1` as its href
    given,      \* the list first handed to dedupe_items, as it was at the call
    items,      \* the caller's list the running dedupe_items call iterates over
    idx,        \* index of the next item of `items` the loop reads
    seen,       \* dedupe_items: the dict `seen`, as <<key, kept record>> entries
    alias,      \* for each entry of `seen`: the index in `items` of the dict
                \* object the kept record is, 0 when it is an object of its own
    order,      \* dedupe_items: keys in first-seen order
    result,     \* the list dedupe_items returned
    first,      \* the result of the first dedupe_items call (kept for the re-run)
    pass,       \* 1 on the first dedupe_items call, 2 on the re-run over its result
    text_in,    \* the value handed to clean and to slugify
    clean1,     \* clean(text_in)
    clean2,     \* clean(clean1)
    slug1,      \* slugify(text_in)
    slug2,      \* slugify(slug1)
    run_profile,    \* run_build's profile argument
    fixture,        \* the file at run_build's html_path
    include_all,    \* run_build's include_all_in argument, then include_all
    exit_code,      \* what run_build returned, None while it has not
    exc,            \* the exception run_build is raising, None when it is not
    deadletter,     \* the stages of the records appended to deadletter.jsonl
    validation,     \* "not_run", then "ok" or "failed" once validate_taxonomy ran
    written,        \* the output files written so far, in order
    counters,       \* observability: the counters incremented since the last flush
    flushed,        \* observability: the snapshots flush_metrics returned
    retry_arg,      \* next_sleep's retry argument on the next call
    base_arg,       \* next_sleep's base argument
    cap_arg,        \* next_sleep's cap argument
    jitter_arg,     \* next_sleep's jitter argument
    rand,           \* what random.random() returns, in quarters
    delays,         \* what the next_sleep calls made so far returned, in order
    clock,          \* what time.monotonic() returns now, in tenths of a second
    limiters,       \* the RateLimiter objects constructed so far
    _GLOBAL,        \* rate_limit._GLOBAL: the index in `limiters` of the object
                    \* it refers to, 0 for None
    threads         \* for each thread: its position, the call it is in, its
                    \* locals and what its last try_acquire found and returned

\* the variables of a pipeline or URL run, all but pc
pipeline == <<html, blk, raw, base_url, href_arg, url1, url2, given, items, idx,
             seen, alias, order, result, first, pass>>

\* the variables of the text runs
textVars == <<text_in, clean1, clean2, slug1, slug2>>

\* the variables of run_build beside those of its pipeline
buildVars == <<run_profile, fixture, include_all, exit_code, exc, deadletter,
               validation, written, counters, flushed>>

\* the variables of the backoff runs
backoffVars == <<retry_arg, base_arg, cap_arg, jitter_arg, rand, delays>>

\* the variables of the rate limiter runs
limiterVars == <<clock, limiters, _GLOBAL, threads>>

\* the variables a pipeline or URL run leaves aside
aside == <<textVars, buildVars, backoffVars, limiterVars>>

\* the variables a text run leaves aside
outsideText == <<pipeline, buildVars, backoffVars, limiterVars>>

\* the variables run_build leaves aside
outsideBuild == <<textVars, backoffVars, limiterVars>>

\* the variables a backoff run leaves aside
outsideBackoff == <<pipeline, textVars, buildVars, limiterVars>>

\* the variables a rate limiter run leaves aside
outsideLimiter == <<pc, pipeline, textVars, buildVars, backoffVars>>

vars == <<pc, pipeline, aside>>

----------------------------------------------------------------------------
(* Characters *)

NBSP == "NBSP"          \* U+00A0 no-break space
TAB == "TAB"            \* U+0009
BEL == "BEL"            \* U+0007, a control character
EACUTE == "EACUTE"      \* U+00E9 e with acute
ENDASH == "ENDASH"      \* U+2013
EMDASH == "EMDASH"      \* U+2014
ACUTE == "ACUTE"        \* U+0301 combining acute accent

LowerLetters ==
    <<"a","b","c","d","e","f","g","h","i","j","k","l","m",
      "n","o","p","q","r","s","t","u","v","w","x","y","z">>

UpperLetters ==
    <<"A","B","C","D","E","F","G","H","I","J","K","L","M",
      "N","O","P","Q","R","S","T","U","V","W","X","Y","Z">>

Digits == {"0","1","2","3","4","5","6","7","8","9"}

Range(s) == {s[i] : i \in DOMAIN s}

LowerSet == Range(LowerLetters)
UpperSet == Range(UpperLetters)

\* the lower-case letter of each upper-case letter
LowerOf == [c \in UpperSet |-> LowerLetters[CHOOSE i \in DOMAIN UpperLetters : UpperLetters[i] = c]]

\* str.lower() on one character
LowerChar(c) == IF c \in UpperSet THEN LowerOf[c] ELSE c

\* str.lower()
Lower(s) == [i \in DOMAIN s |-> LowerChar(s[i])]

\* characters the regex class \s and str.strip() treat as whitespace
Whitespace == {" ", TAB, NBSP}

IsSpace(c) == c \in Whitespace

\* characters the regex class \w matches
WordChars == LowerSet \cup UpperSet \cup Digits \cup {"_", EACUTE}

IsWord(c) == c \in WordChars

\* s[i:] for a 1-based first index i
From(s, i) == IF i > Len(s) THEN <<>> ELSE SubSeq(s, i, Len(s))

\* str.strip(chars): drop leading and trailing characters of the set
RECURSIVE LStripSet(_, _)
LStripSet(s, cs) ==
    IF s # <<>> /\ Head(s) \in cs THEN LStripSet(Tail(s), cs) ELSE s

RECURSIVE RStripSet(_, _)
RStripSet(s, cs) ==
    IF s # <<>> /\ s[Len(s)] \in cs THEN RStripSet(SubSeq(s, 1, Len(s) - 1), cs) ELSE s

StripSet(s, cs) == RStripSet(LStripSet(s, cs), cs)

\* str.strip()
Strip(s) == StripSet(s, Whitespace)

\* s.startswith(p)
StartsWith(s, p) == Len(s) >= Len(p) /\ SubSeq(s, 1, Len(p)) = p

\* s.endswith(p)
EndsWith(s, p) == Len(s) >= Len(p) /\ SubSeq(s, Len(s) - Len(p) + 1, Len(s)) = p

\* p in s
Contains(s, p) ==
    \E i \in 1..(Len(s) - Len(p) + 1) : SubSeq(s, i, i + Len(p) - 1) = p

----------------------------------------------------------------------------
(* normalize/text.py *)

\* unicodedata.normalize("NFKC", s): the no-break space becomes a space, and
\* an e with the combining accent after it becomes the one character (of the
\* letters the text runs use, e is the one that has a composed form)
RECURSIVE nfkc(_)
nfkc(s) ==
    IF s = <<>> THEN <<>>
    ELSE IF Head(s) = NBSP THEN <<" ">> \o nfkc(Tail(s))
    ELSE IF Len(s) > 1 /\ s[1] = "e" /\ s[2] = ACUTE THEN <<EACUTE>> \o nfkc(From(s, 3))
    ELSE <<Head(s)>> \o nfkc(Tail(s))

\* _CTRL_RE.sub("", s)
RECURSIVE DropCtrl(_)
DropCtrl(s) ==
    IF s = <<>> THEN <<>>
    ELSE IF Head(s) = BEL THEN DropCtrl(Tail(s))
    ELSE <<Head(s)>> \o DropCtrl(Tail(s))

\* _WS_RE.sub(" ", s): every whitespace run becomes one space
RECURSIVE CollapseWs(_)
CollapseWs(s) ==
    IF s = <<>> THEN <<>>
    ELSE IF IsSpace(Head(s))
         THEN <<" ">> \o CollapseWs(LStripSet(Tail(s), Whitespace))
         ELSE <<Head(s)>> \o CollapseWs(Tail(s))

None == <<"None">>      \* Python's None
Absent == <<"Absent">>  \* a dict key that is not there

\* `not v` for a str-or-None value
Falsy(v) == v = None \/ v = Absent \/ v = <<>>

\* no text run is under way
TextIdle ==
    /\ text_in = None
    /\ clean1 = None
    /\ clean2 = None
    /\ slug1 = None
    /\ slug2 = None

\* no pipeline or URL run is under way
PipelineIdle ==
    /\ html = None
    /\ blk = 1
    /\ raw = <<>>
    /\ base_url = None
    /\ href_arg = None
    /\ url1 = None
    /\ url2 = None
    /\ given = <<>>
    /\ items = <<>>
    /\ idx = 1
    /\ seen = <<>>
    /\ alias = <<>>
    /\ order = <<>>
    /\ result = <<>>
    /\ first = <<>>
    /\ pass = 1

\* no run_build is under way
BuildIdle ==
    /\ run_profile = None
    /\ fixture = None
    /\ include_all = None
    /\ exit_code = None
    /\ exc = None
    /\ deadletter = <<>>
    /\ validation = "not_run"
    /\ written = <<>>
    /\ counters = <<>>
    /\ flushed = <<>>

\* no backoff run is under way
BackoffIdle ==
    /\ retry_arg = 0
    /\ base_arg = 0
    /\ cap_arg = 0
    /\ jitter_arg = None
    /\ rand = 0
    /\ delays = <<>>

\* no rate limiter run is under way
LimiterIdle ==
    /\ clock = 0
    /\ limiters = <<>>
    /\ _GLOBAL = 0
    /\ threads = <<>>

AsideIdle == TextIdle /\ BuildIdle /\ BackoffIdle /\ LimiterIdle

clean(value) ==
    IF Falsy(value) THEN <<>>
    ELSE Strip(CollapseWs(DropCtrl(nfkc(value))))

\* unicodedata.normalize("NFKD", s).encode("ascii", "ignore"): the accent of
\* an accented letter and every other non-ASCII character are dropped
RECURSIVE AsciiFold(_)
AsciiFold(s) ==
    IF s = <<>> THEN <<>>
    ELSE IF Head(s) = EACUTE THEN <<"e">> \o AsciiFold(Tail(s))
    ELSE IF Head(s) \in {ENDASH, EMDASH, NBSP, ACUTE} THEN AsciiFold(Tail(s))
    ELSE <<Head(s)>> \o AsciiFold(Tail(s))

LowerAlnum == LowerSet \cup Digits

IsLowerAlnum(c) == c \in LowerAlnum

\* _NON_ALNUM_RE.sub("-", s): every run outside [a-z0-9] becomes one dash
RECURSIVE DashRuns(_)
DashRuns(s) ==
    IF s = <<>> THEN <<>>
    ELSE IF IsLowerAlnum(Head(s)) THEN <<Head(s)>> \o DashRuns(Tail(s))
    ELSE IF Len(s) > 1 /\ ~IsLowerAlnum(s[2]) THEN DashRuns(Tail(s))
    ELSE <<"-">> \o DashRuns(Tail(s))

\* re.sub(r"-+", "-", s)
RECURSIVE CollapseDashes(_)
CollapseDashes(s) ==
    IF s = <<>> THEN <<>>
    ELSE IF Head(s) = "-" /\ Len(s) > 1 /\ s[2] = "-" THEN CollapseDashes(Tail(s))
    ELSE <<Head(s)>> \o CollapseDashes(Tail(s))

slugify(value) ==
    LET s == clean(value)
    IN  IF s = <<>> THEN <<>>
        ELSE CollapseDashes(StripSet(DashRuns(Lower(AsciiFold(s))), {"-"}))

----------------------------------------------------------------------------
(* normalize/types.py *)

\* ItemType values (the enum's str values)
CATEGORY == <<"c","a","t","e","g","o","r","y">>
SUBCATEGORY == <<"s","u","b","c","a","t","e","g","o","r","y">>
ALL_IN == <<"a","l","l","_","i","n">>

ItemTypes == {CATEGORY, SUBCATEGORY, ALL_IN}

ROOT_HINTS ==
    { <<"/","d","i","r","e","c","t","o","r","y","/">>,
      <<"/","c","a","t","e","g","o","r","i","e","s">>,
      <<"/","c","a","t","e","g","o","r","y","/">> }

\* the legacy href fallbacks of is_all_in
LegacyAllInHref(h) ==
    \/ EndsWith(h, <<"/","a","l","l">>)
    \/ Contains(h, <<"/","a","l","l","/">>)
    \/ Contains(h, <<"a","l","l","-","i","n">>)
    \/ Contains(h, <<"?","a","l","l","=">>)
    \/ Contains(h, <<"&","a","l","l","=">>)

\* ItemType.coerce: None for an absent or unrecognized value
coerce(value) ==
    IF Falsy(value) THEN None
    ELSE LET v == Lower(Strip(value))
         IN  IF v \in ItemTypes THEN v ELSE None

RECURSIVE SkipWs(_, _)
SkipWs(s, i) == IF i <= Len(s) /\ IsSpace(s[i]) THEN SkipWs(s, i + 1) ELSE i

\* _RE_ALL_IN = ^\s*all\s+in\b, case-insensitive: the number of characters
\* the match consumes (m.end()), or 0 when the text does not match
RE_ALL_IN(s) ==
    LET a == SkipWs(s, 1)
        b == a + 3
        c == SkipWs(s, b)
        e == c + 2
    IN  IF /\ b <= Len(s)
           /\ Lower(SubSeq(s, a, a + 2)) = <<"a","l","l">>
           /\ c > b
           /\ e - 1 <= Len(s)
           /\ Lower(SubSeq(s, c, c + 1)) = <<"i","n">>
           /\ (e > Len(s) \/ ~IsWord(s[e]))
        THEN e - 1
        ELSE 0

\* is_all_in(name, href) as attach_lineage calls it (no attrs)
is_all_in(name, href) ==
    LET n == clean(name)
        h == Lower(Strip(href))
    IN  \/ n # <<>> /\ RE_ALL_IN(n) > 0
        \/ /\ ~Falsy(href)
           /\ \/ \E frag \in ROOT_HINTS : Contains(h, Lower(frag))
              \/ LegacyAllInHref(h)

\* the characters normalize_all_in_name trims off the label
LabelSeparators == {" ", ":", ENDASH, "-", EMDASH}

\* the label of normalize_all_in_name: the text after a leading "All in"
all_in_label(display) ==
    LET text == clean(display)
        m == RE_ALL_IN(text)
        label == StripSet(From(text, m + 1), LabelSeparators)
    IN  IF text = <<>> THEN <<"A","l","l">>
        ELSE IF m > 0 THEN (IF label = <<>> THEN <<"A","l","l">> ELSE label)
        ELSE text

\* normalize_all_in_name(display) = (label, slug)
normalize_all_in_name(display) ==
    LET label == all_in_label(display)
    IN  <<label, slugify(label)>>

----------------------------------------------------------------------------
(* normalize/urls.py, with the parts of urllib.parse and posixpath it calls. *)

\* index of the first character of s that is in cs, 0 when there is none
RECURSIVE FindFrom(_, _, _)
FindFrom(s, cs, i) ==
    IF i > Len(s) THEN 0
    ELSE IF s[i] \in cs THEN i
    ELSE FindFrom(s, cs, i + 1)

Find(s, cs) == FindFrom(s, cs, 1)

\* index of the last character of s that is in cs, 0 when there is none
RECURSIVE RFindFrom(_, _, _)
RFindFrom(s, cs, i) ==
    IF i < 1 THEN 0
    ELSE IF s[i] \in cs THEN i
    ELSE RFindFrom(s, cs, i - 1)

\* s.split(d): the list of pieces between occurrences of the character d
RECURSIVE Split(_, _)
Split(s, d) ==
    LET i == Find(s, {d})
    IN  IF i = 0 THEN <<s>>
        ELSE <<SubSeq(s, 1, i - 1)>> \o Split(From(s, i + 1), d)

\* d.join(parts)
RECURSIVE Join(_, _)
Join(parts, d) ==
    IF parts = <<>> THEN <<>>
    ELSE IF Len(parts) = 1 THEN parts[1]
    ELSE parts[1] \o d \o Join(Tail(parts), d)

HTTP == <<"h","t","t","p">>
HTTPS == <<"h","t","t","p","s">>

\* characters urlsplit accepts in a scheme
SchemeChars == LowerSet \cup UpperSet \cup Digits \cup {"+", "-", "."}

AsciiAlpha == LowerSet \cup UpperSet

IsAsciiAlpha(c) == c \in AsciiAlpha

\* the schemes of urllib's uses_relative / uses_netloc that the model's URLs use
UsesRelative == {<<>>, HTTP, HTTPS, <<"f","t","p">>, <<"f","i","l","e">>}

RECURSIVE DropTabs(_)
DropTabs(s) ==
    IF s = <<>> THEN <<>>
    ELSE IF Head(s) = TAB THEN DropTabs(Tail(s))
    ELSE <<Head(s)>> \o DropTabs(Tail(s))

\* s before the cut at index i (all of s when there is no cut, i = 0)
Before(s, i) == IF i = 0 THEN s ELSE SubSeq(s, 1, i - 1)

\* s after the cut at index i ("" when there is no cut)
After(s, i) == IF i = 0 THEN <<>> ELSE From(s, i + 1)

\* urlsplit, last step: the query after the first "?" (at q) of `rest`
SplitQuery(scheme, netloc, rest, fragment, q) ==
    [scheme |-> scheme, netloc |-> netloc, path |-> Before(rest, q),
     query |-> After(rest, q), fragment |-> fragment]

\* urlsplit: the fragment after the first "#" (at h) of `url`
SplitFragment(scheme, netloc, url, h) ==
    SplitQuery(scheme, netloc, Before(url, h), After(url, h), Find(Before(url, h), {"?"}))

\* urlsplit: the netloc of a url that starts with "//", ending at the first
\* "/", "?" or "#" (at delim)
SplitNetloc(scheme, url, delim) ==
    IF ~StartsWith(url, <<"/","/">>)
    THEN SplitFragment(scheme, <<>>, url, Find(url, {"#"}))
    ELSE IF delim = 0 THEN SplitFragment(scheme, From(url, 3), <<>>, 0)
    ELSE SplitFragment(scheme, SubSeq(url, 3, delim - 1), From(url, delim),
                       Find(From(url, delim), {"#"}))

\* urlsplit: the scheme before the first ":" (at i), when it is one
SplitScheme(url, default_scheme, i) ==
    IF /\ i > 1
       /\ IsAsciiAlpha(url[1])
       /\ \A k \in 1..(i - 1) : url[k] \in SchemeChars
    THEN SplitNetloc(Lower(SubSeq(url, 1, i - 1)), From(url, i + 1),
                     FindFrom(From(url, i + 1), {"/", "?", "#"}, 3))
    ELSE SplitNetloc(default_scheme, url, FindFrom(url, {"/", "?", "#"}, 3))

\* urlsplit of a url already stripped of leading blanks and of tabs
urlsplit(url, default_scheme) == SplitScheme(url, default_scheme, Find(url, {":"}))

\* the schemes of urllib's uses_params that the model's URLs use
UsesParams == {<<>>, HTTP, HTTPS, <<"f","t","p">>, <<"t","e","l">>}

\* urlparse: the params after the first ";" (at i) of the path
SplitParams(s, i) ==
    [scheme |-> s.scheme,
     netloc |-> s.netloc,
     path |-> IF s.scheme \in UsesParams THEN Before(s.path, i) ELSE s.path,
     params |-> IF s.scheme \in UsesParams THEN After(s.path, i) ELSE <<>>,
     query |-> s.query,
     fragment |-> s.fragment]

\* urlparse of a split url; _splitparams looks for the ";" in the last
\* segment of the path
ParseSplit(s) ==
    SplitParams(s, FindFrom(s.path, {";"},
                            IF RFindFrom(s.path, {"/"}, Len(s.path)) = 0 THEN 1
                            ELSE RFindFrom(s.path, {"/"}, Len(s.path))))

\* urllib.parse.urlparse(url, default_scheme)
urlparse2(url0, default_scheme) ==
    ParseSplit(urlsplit(DropTabs(LStripSet(url0, {" ", TAB, BEL})), default_scheme))

urlparse(url) == urlparse2(url, <<>>)

\* what canonicalize yields when urlsplit raises ValueError
Raised == <<"ValueError">>

\* the bracketed hosts of the model that ipaddress.ip_address accepts as IPv6
BracketedHosts == { <<":",":","1">> }

\* the host between the first "[" of a netloc and the "]" that follows
Bracketed(netloc) ==
    LET rest == From(netloc, Find(netloc, {"["}) + 1)
    IN  Before(rest, Find(rest, {"]"}))

\* urlsplit raises ValueError("Invalid IPv6 URL") on a netloc with one bracket
\* and no other, and _check_bracketed_host raises on a bracketed host that is
\* no IPv6 address
BadNetloc(netloc) ==
    \/ "[" \in Range(netloc) /\ "]" \notin Range(netloc)
    \/ "]" \in Range(netloc) /\ "[" \notin Range(netloc)
    \/ /\ "[" \in Range(netloc)
       /\ "]" \in Range(netloc)
       /\ Bracketed(netloc) \notin BracketedHosts

\* urlparse(url) raises
ParseRaises(url) == BadNetloc(urlparse(url).netloc)

\* urllib.parse.urlunsplit((scheme, netloc, path, query, fragment))
urlunsplit(p) ==
    LET u1 == IF p.netloc # <<>> \/
                 (p.scheme # <<>> /\ p.scheme \in UsesRelative /\ ~StartsWith(p.path, <<"/","/">>))
              THEN <<"/","/">> \o p.netloc \o
                   (IF p.path # <<>> /\ Head(p.path) # "/" THEN <<"/">> ELSE <<>>) \o p.path
              ELSE p.path
        u2 == IF p.scheme # <<>> THEN p.scheme \o <<":">> \o u1 ELSE u1
        u3 == IF p.query # <<>> THEN u2 \o <<"?">> \o p.query ELSE u2
    IN  IF p.fragment # <<>> THEN u3 \o <<"#">> \o p.fragment ELSE u3

\* urllib.parse.urlunparse((scheme, netloc, path, params, query, fragment))
urlunparse(p) ==
    urlunsplit([scheme |-> p.scheme,
                netloc |-> p.netloc,
                path |-> IF p.params # <<>> THEN p.path \o <<";">> \o p.params ELSE p.path,
                query |-> p.query,
                fragment |-> p.fragment])

\* the dot-segment loop of urljoin
RECURSIVE ResolveSegments(_, _)
ResolveSegments(segments, acc) ==
    IF segments = <<>> THEN acc
    ELSE IF Head(segments) = <<".",".">>
         THEN ResolveSegments(Tail(segments),
                              IF acc = <<>> THEN acc ELSE SubSeq(acc, 1, Len(acc) - 1))
    ELSE IF Head(segments) = <<".">> THEN ResolveSegments(Tail(segments), acc)
    ELSE ResolveSegments(Tail(segments), Append(acc, Head(segments)))

\* segments[1:-1] = filter(None, segments[1:-1])
DropInnerEmpty(segments) ==
    IF Len(segments) <= 2 THEN segments
    ELSE <<segments[1]>> \o
         SelectSeq(SubSeq(segments, 2, Len(segments) - 1), LAMBDA x : x # <<>>) \o
         <<segments[Len(segments)]>>

\* urljoin: base_parts, the segments of the base path without its last one
BaseParts(parts) ==
    IF parts[Len(parts)] # <<>> THEN SubSeq(parts, 1, Len(parts) - 1) ELSE parts

\* urljoin: the segments of the joined path before dot-segments are resolved
JoinSegments(base_path, path) ==
    IF StartsWith(path, <<"/">>) THEN Split(path, "/")
    ELSE DropInnerEmpty(BaseParts(Split(base_path, "/")) \o Split(path, "/"))

\* urljoin: the resolved path; a final "." or ".." leaves a trailing slash
ResolvedPath(segments) ==
    Join(IF segments[Len(segments)] \in {<<".">>, <<".",".">>}
         THEN Append(ResolveSegments(segments, <<>>), <<>>)
         ELSE ResolveSegments(segments, <<>>),
         <<"/">>)

\* `"/".join(resolved_path) or "/"`
OrRoot(path) == IF path = <<>> THEN <<"/">> ELSE path

\* urljoin once base (b) and url (u) are parsed
JoinParsed(url, b, u) ==
    IF u.scheme # b.scheme \/ u.scheme \notin UsesRelative THEN url
    ELSE IF u.netloc # <<>> THEN urlunparse(u)
    ELSE IF u.path = <<>> /\ u.params = <<>>
         THEN urlunparse([u EXCEPT !.netloc = b.netloc, !.path = b.path,
                                   !.params = b.params,
                                   !.query = IF u.query = <<>> THEN b.query ELSE u.query])
    ELSE urlunparse([u EXCEPT !.netloc = b.netloc,
                              !.path = OrRoot(ResolvedPath(JoinSegments(b.path, u.path)))])

JoinBase(url, b) == JoinParsed(url, b, urlparse2(url, b.scheme))

\* urllib.parse.urljoin(base, url)
urljoin(base, url) ==
    IF base = <<>> THEN url
    ELSE IF url = <<>> THEN base
    ELSE JoinBase(url, urlparse(base))

_DROP_PREFIXES == { <<"u","t","m","_">>, <<"h","s","a","_">> }

_DROP_KEYS ==
    { <<"g","c","l","i","d">>, <<"f","b","c","l","i","d">>,
      <<"m","c","_","c","i","d">>, <<"m","c","_","e","i","d">>,
      <<"_","h","s","e","n","c">>, <<"_","h","s","m","i">>,
      <<"r","e","f">>, <<"r","e","f","_","s","r","c">>, <<"r","e","f","_","u","r","l">> }

_is_http_scheme(scheme) == scheme \in {HTTP, HTTPS}

\* _clean_query over a list of <<key, value>> pairs
_clean_query(pairs) ==
    SelectSeq(pairs, LAMBDA kv :
        /\ Lower(kv[1]) \notin _DROP_KEYS
        /\ ~\E pfx \in _DROP_PREFIXES : StartsWith(Lower(kv[1]), pfx))

\* host[:port], the host lower-cased and the scheme's default port dropped
HostPort(scheme, host, port) ==
    IF \/ port = <<>>
       \/ (scheme = HTTP /\ port = <<"8","0">>)
       \/ (scheme = HTTPS /\ port = <<"4","4","3">>)
    THEN Lower(host)
    ELSE Lower(host) \o <<":">> \o port

\* hostport split at its first ":" (at c)
SplitHostPort(scheme, hostport, c) ==
    HostPort(scheme, Before(hostport, c), After(hostport, c))

\* netloc split at its last "@" (at `at`): userinfo@hostport
SplitUserinfo(scheme, netloc, at) ==
    IF at <= 1 THEN SplitHostPort(scheme, After(netloc, at), Find(After(netloc, at), {":"}))
    ELSE SubSeq(netloc, 1, at - 1) \o <<"@">> \o
         SplitHostPort(scheme, After(netloc, at), Find(After(netloc, at), {":"}))

_normalize_netloc(scheme, netloc) ==
    IF netloc = <<>> THEN netloc
    ELSE IF "@" \in Range(netloc)
         THEN SplitUserinfo(scheme, netloc, RFindFrom(netloc, {"@"}, Len(netloc)))
    ELSE SplitHostPort(scheme, netloc, Find(netloc, {":"}))

\* the component loop of posixpath.normpath
RECURSIVE NormComps(_, _, _)
NormComps(comps, acc, initial_slashes) ==
    IF comps = <<>> THEN acc
    ELSE LET comp == Head(comps)
         IN  IF comp \in {<<>>, <<".">>} THEN NormComps(Tail(comps), acc, initial_slashes)
             ELSE IF \/ comp # <<".",".">>
                     \/ (initial_slashes = 0 /\ acc = <<>>)
                     \/ (acc # <<>> /\ acc[Len(acc)] = <<".",".">>)
                  THEN NormComps(Tail(comps), Append(acc, comp), initial_slashes)
             ELSE IF acc # <<>>
                  THEN NormComps(Tail(comps), SubSeq(acc, 1, Len(acc) - 1), initial_slashes)
             ELSE NormComps(Tail(comps), acc, initial_slashes)

\* posixpath.normpath: the number of leading slashes kept (exactly two are)
InitialSlashes(path) ==
    IF ~StartsWith(path, <<"/">>) THEN 0
    ELSE IF StartsWith(path, <<"/","/">>) /\ ~StartsWith(path, <<"/","/","/">>) THEN 2
    ELSE 1

\* `path or "."`
OrDot(path) == IF path = <<>> THEN <<".">> ELSE path

NormJoined(path, initial_slashes) ==
    OrDot((IF initial_slashes = 2 THEN <<"/","/">>
           ELSE IF initial_slashes = 1 THEN <<"/">> ELSE <<>>)
          \o Join(NormComps(Split(path, "/"), <<>>, initial_slashes), <<"/">>))

\* posixpath.normpath(path)
normpath(path) ==
    IF path = <<>> THEN <<".">> ELSE NormJoined(path, InitialSlashes(path))

\* `if not collapsed.startswith('/')`
WithLeadingSlash(collapsed) ==
    IF StartsWith(collapsed, <<"/">>) THEN collapsed ELSE <<"/">> \o collapsed

_normalize_path(path) ==
    IF path = <<>> THEN <<"/">> ELSE WithLeadingSlash(normpath(path))

\* characters quote_plus leaves as they are
QuoteSafe == LowerSet \cup UpperSet \cup Digits \cup {"_", ".", "-", "~"}

\* the percent-escapes of the punctuation the model's URLs use: <<char, hex>>
Escapes ==
    << <<" ", <<"2","0">> >>, <<"#", <<"2","3">> >>, <<"%", <<"2","5">> >>,
       <<"&", <<"2","6">> >>, <<"+", <<"2","B">> >>, <<"/", <<"2","F">> >>,
       <<":", <<"3","A">> >>, <<";", <<"3","B">> >>, <<"=", <<"3","D">> >>,
       <<"?", <<"3","F">> >>, <<"@", <<"4","0">> >>, <<"[", <<"5","B">> >>,
       <<"]", <<"5","D">> >> >>

\* the upper-case letter of each lower-case letter
UpperOf == [c \in LowerSet |-> UpperLetters[CHOOSE i \in DOMAIN LowerLetters : LowerLetters[i] = c]]

UpperChar(c) == IF c \in LowerSet THEN UpperOf[c] ELSE c

REPL == "REPL"          \* U+FFFD, what errors="replace" decodes a bad byte to

HexDigits == <<"0","1","2","3","4","5","6","7","8","9","A","B","C","D","E","F">>

\* the two hex digits of a byte
HexOf(code) == <<HexDigits[(code \div 16) + 1], HexDigits[(code % 16) + 1]>>

\* the escapes of the ASCII digits and letters and of the two control
\* characters of the model: <<char, hex>>
AlnumEscapes ==
    [i \in 1..10 |-> <<HexDigits[i], HexOf(47 + i)>>]
    \o [i \in 1..26 |-> <<UpperLetters[i], HexOf(64 + i)>>]
    \o [i \in 1..26 |-> <<LowerLetters[i], HexOf(96 + i)>>]
    \o << <<BEL, <<"0","7">> >>, <<TAB, <<"0","9">> >> >>

\* every one-byte escape the model decodes
ByteEscapes == Escapes \o AlnumEscapes

\* the UTF-8 bytes of the model's characters above U+007F: <<char, escapes>>
Utf8Escapes ==
    << <<NBSP, <<"%","C","2","%","A","0">> >>,
       <<EACUTE, <<"%","C","3","%","A","9">> >>,
       <<ENDASH, <<"%","E","2","%","8","0","%","9","3">> >>,
       <<EMDASH, <<"%","E","2","%","8","0","%","9","4">> >>,
       <<REPL, <<"%","E","F","%","B","F","%","B","D">> >> >>

Upper(s) == [i \in DOMAIN s |-> UpperChar(s[i])]

IsEscape(s) ==
    /\ Len(s) >= 3
    /\ s[1] = "%"
    /\ \E k \in DOMAIN ByteEscapes : ByteEscapes[k][2] = <<UpperChar(s[2]), UpperChar(s[3])>>

\* s starts with the UTF-8 escapes of the k-th character of Utf8Escapes
IsUtf8(s, k) == StartsWith(Upper(s), Utf8Escapes[k][2])

\* s starts with the escape of a byte above 0x7F
IsHighByte(s) ==
    /\ Len(s) >= 3
    /\ s[1] = "%"
    /\ UpperChar(s[2]) \in {"8","9","A","B","C","D","E","F"}
    /\ UpperChar(s[3]) \in Range(HexDigits)

\* urllib.parse.unquote(s.replace("+", " ")): the escaped bytes are decoded as
\* UTF-8 with errors="replace".  Of the bytes above 0x7F the model knows the
\* UTF-8 forms of its own characters; any other such byte is taken alone, as
\* a byte that is not valid UTF-8.
RECURSIVE unquote_plus(_)
unquote_plus(s) ==
    IF s = <<>> THEN <<>>
    ELSE IF IsEscape(s)
         THEN <<ByteEscapes[CHOOSE k \in DOMAIN ByteEscapes :
                    ByteEscapes[k][2] = <<UpperChar(s[2]), UpperChar(s[3])>>][1]>>
              \o unquote_plus(From(s, 4))
    ELSE IF \E k \in DOMAIN Utf8Escapes : IsUtf8(s, k)
         THEN LET k == CHOOSE j \in DOMAIN Utf8Escapes : IsUtf8(s, j)
              IN  <<Utf8Escapes[k][1]>> \o unquote_plus(From(s, Len(Utf8Escapes[k][2]) + 1))
    ELSE IF IsHighByte(s) THEN <<REPL>> \o unquote_plus(From(s, 4))
    ELSE IF Head(s) = "+" THEN <<" ">> \o unquote_plus(Tail(s))
    ELSE <<Head(s)>> \o unquote_plus(Tail(s))

\* urllib.parse.quote_plus(s)
RECURSIVE quote_plus(_)
quote_plus(s) ==
    IF s = <<>> THEN <<>>
    ELSE IF Head(s) \in QuoteSafe THEN <<Head(s)>> \o quote_plus(Tail(s))
    ELSE IF Head(s) = " " THEN <<"+">> \o quote_plus(Tail(s))
    ELSE IF \E k \in DOMAIN ByteEscapes : ByteEscapes[k][1] = Head(s)
         THEN <<"%">> \o ByteEscapes[CHOOSE k \in DOMAIN ByteEscapes : ByteEscapes[k][1] = Head(s)][2]
              \o quote_plus(Tail(s))
    ELSE IF \E k \in DOMAIN Utf8Escapes : Utf8Escapes[k][1] = Head(s)
         THEN Utf8Escapes[CHOOSE k \in DOMAIN Utf8Escapes : Utf8Escapes[k][1] = Head(s)][2]
              \o quote_plus(Tail(s))
    ELSE <<Head(s)>> \o quote_plus(Tail(s))

\* one "name=value" piece of a query string as a <<name, value>> pair
QueryPair(name_value) ==
    LET i == Find(name_value, {"="})
    IN  IF i = 0 THEN <<unquote_plus(name_value), <<>>>>
        ELSE <<unquote_plus(SubSeq(name_value, 1, i - 1)), unquote_plus(From(name_value, i + 1))>>

\* urllib.parse.parse_qsl(query, keep_blank_values=True)
RECURSIVE PairsOf(_)
PairsOf(pieces) ==
    IF pieces = <<>> THEN <<>>
    ELSE IF Head(pieces) = <<>> THEN PairsOf(Tail(pieces))
    ELSE <<QueryPair(Head(pieces))>> \o PairsOf(Tail(pieces))

parse_qsl(query) == IF query = <<>> THEN <<>> ELSE PairsOf(Split(query, "&"))

\* urllib.parse.urlencode(pairs, doseq=True)
RECURSIVE urlencode(_)
urlencode(pairs) ==
    IF pairs = <<>> THEN <<>>
    ELSE LET kv == quote_plus(pairs[1][1]) \o <<"=">> \o quote_plus(pairs[1][2])
         IN  IF Len(pairs) = 1 THEN kv ELSE kv \o <<"&">> \o urlencode(Tail(pairs))

\* canonicalize: an http(s) href rebuilt from its normalized parts
Normalized(href, p_href, scheme) ==
    IF ~_is_http_scheme(scheme) THEN href
    ELSE urlunparse([scheme |-> scheme,
                     netloc |-> _normalize_netloc(scheme, p_href.netloc),
                     path |-> _normalize_path(p_href.path),
                     params |-> <<>>,
                     query |-> urlencode(_clean_query(parse_qsl(p_href.query))),
                     fragment |-> <<>>])

Reparsed(href, p_href) ==
    Normalized(href, p_href, Lower(IF p_href.scheme = <<>> THEN HTTPS ELSE p_href.scheme))

\* canonicalize: a protocol-relative href is taken as https
ProtocolRelative(href) ==
    IF StartsWith(href, <<"/","/">>)
    THEN Reparsed(HTTPS \o <<":">> \o href, urlparse(HTTPS \o <<":">> \o href))
    ELSE Reparsed(href, urlparse(href))

\* canonicalize: a relative href joined to its base; urljoin parses the base
\* and line 100 parses the joined URL
Joined(base, href) ==
    IF ParseRaises(base) THEN Raised
    ELSE IF ParseRaises(urljoin(base, href)) THEN Raised
    ELSE ProtocolRelative(urljoin(base, href))

\* canonicalize once the stripped, non-empty href is parsed
Resolved(base, href, p_href) ==
    IF p_href.scheme # <<>> /\ ~_is_http_scheme(Lower(p_href.scheme)) THEN href
    ELSE IF p_href.scheme = <<>> /\ ~StartsWith(href, <<"/","/">>)
         THEN IF Falsy(base) THEN <<>> ELSE Joined(base, href)
    ELSE ProtocolRelative(href)

Stripped(base, href) ==
    IF href = <<>> THEN <<>>
    ELSE IF ParseRaises(href) THEN Raised
    ELSE Resolved(base, href, urlparse(href))

\* canonicalize(base, href)
canonicalize(base, href0) ==
    Stripped(base, IF Falsy(href0) THEN <<>> ELSE Strip(href0))

----------------------------------------------------------------------------
(* parse/directory_parser.py and parse/selectors.py.  A page is modelled by  *)
(* its text and by what BeautifulSoup's select finds in it: for each         *)
(* selector profile the blocks its CATEGORY_BLOCKS match, and for a block    *)
(* the text under each CATEGORY_TITLE candidate, the item nodes (each by the *)
(* position of its first a[href], 0 for none) and its a[href] anchors in     *)
(* document order.                                                           *)

\* " ".join(s.split()).strip()
_clean_text(s) == IF Falsy(s) THEN <<>> ELSE Strip(CollapseWs(s))

\* get_selectors(): PRIMARY, ALT_LISTY, GENERIC, in the order they are tried
Profiles == 1..3

\* ALL_IN_SELECTORS of each profile, each selector by the attribute it tests
ALL_IN_SELECTORS ==
    << <<"class", "data-test", "aria-label", "title", "a[href]">>,
       <<"class", "data-test", "a[href]">>,
       <<"a[href]">> >>

ALL_IN_TEXT_HINT == <<"a","l","l"," ","i","n">>

ROOT_HREF_HINTS ==
    { <<"/","d","i","r","e","c","t","o","r","y","/">>,
      <<"/","c","a","t","e","g","o","r","i","e","s">>,
      <<"/","c","a","t","e","g","o","r","y","/">> }

\* does the anchor match the selector (a[href] matches every anchor here)
Selects(css, a) ==
    IF css = "class" THEN ~Falsy(a.class) /\ Contains(a.class, <<"a","l","l","-","i","n">>)
    ELSE IF css = "data-test" THEN a.data_test = <<"a","l","l","-","i","n">>
    ELSE IF css = "aria-label" THEN ~Falsy(a.aria_label) /\ Contains(a.aria_label, <<"A","l","l"," ","i","n">>)
    ELSE IF css = "title" THEN ~Falsy(a.title) /\ Contains(a.title, <<"A","l","l"," ","i","n">>)
    ELSE TRUE

\* _first_match_text: the first title candidate with non-empty cleaned text
RECURSIVE _first_match_text(_)
_first_match_text(texts) ==
    IF texts = <<>> THEN <<>>
    ELSE IF _clean_text(Head(texts)) # <<>> THEN _clean_text(Head(texts))
    ELSE _first_match_text(Tail(texts))

\* the anchors list of _iter_all_in_candidates: the hits of each selector
RECURSIVE Hits(_, _)
Hits(anchors, sels) ==
    IF sels = <<>> THEN <<>>
    ELSE SelectSeq(anchors, LAMBDA a : Selects(Head(sels), a)) \o Hits(anchors, Tail(sels))

\* the de-duplication of _iter_all_in_candidates: first anchor of each href
RECURSIVE Uniq(_, _)
Uniq(anchors, keys) ==
    IF anchors = <<>> THEN <<>>
    ELSE IF Strip(Head(anchors).href) # <<>> /\ Strip(Head(anchors).href) \notin keys
         THEN <<Head(anchors)>> \o Uniq(Tail(anchors), keys \cup {Strip(Head(anchors).href)})
    ELSE Uniq(Tail(anchors), keys)

_iter_all_in_candidates(block, profile) ==
    Uniq(Hits(block.anchors, ALL_IN_SELECTORS[profile]), {})

\* `hint in (value or "").lower()`
HasHint(value) == ~Falsy(value) /\ Contains(Lower(value), ALL_IN_TEXT_HINT)

\* `frag in href` for some root hint, href stripped
RootLike(a) == \E frag \in ROOT_HREF_HINTS : Contains(Strip(a.href), frag)

_is_all_in_anchor(a) ==
    \/ Contains(Lower(_clean_text(a.text)), ALL_IN_TEXT_HINT)
    \/ HasHint(a.aria_label)
    \/ HasHint(a.title)
    \/ RootLike(a)

\* the fallback of parse_directory: the first root-like anchor of the block
FirstRootLike(anchors) ==
    IF \E i \in DOMAIN anchors : RootLike(anchors[i])
    THEN <<anchors[CHOOSE i \in DOMAIN anchors :
                      RootLike(anchors[i]) /\ \A j \in 1..(i - 1) : ~RootLike(anchors[j])]>>
    ELSE <<>>

\* `picked`
Picked(block, profile) ==
    IF SelectSeq(_iter_all_in_candidates(block, profile), _is_all_in_anchor) # <<>>
    THEN SelectSeq(_iter_all_in_candidates(block, profile), _is_all_in_anchor)
    ELSE FirstRootLike(block.anchors)

\* the name of the all_in item of anchor a
name_txt(a, cat_name) ==
    IF _clean_text(a.text) # <<>> THEN _clean_text(a.text)
    ELSE <<"A","l","l"," ","i","n"," ">> \o cat_name

\* `for a in picked`: the all_in items, one for each new key href|name
RECURSIVE AllInItems(_, _, _)
AllInItems(picked, emitted, cat_name) ==
    IF picked = <<>> THEN <<>>
    ELSE IF (Head(picked).href \o <<"|">> \o name_txt(Head(picked), cat_name)) \in emitted
         THEN AllInItems(Tail(picked), emitted, cat_name)
    ELSE <<[type |-> ALL_IN,
            name |-> name_txt(Head(picked), cat_name),
            href |-> Head(picked).href,
            parent |-> cat_name]>>
         \o AllInItems(Tail(picked),
                       emitted \cup {Head(picked).href \o <<"|">> \o name_txt(Head(picked), cat_name)},
                       cat_name)

\* `for node in sub_items`: the subcategory items
RECURSIVE SubcategoryItems(_, _, _)
SubcategoryItems(nodes, anchors, cat_name) ==
    IF nodes = <<>> THEN <<>>
    ELSE IF Head(nodes) = 0 \/ _clean_text(anchors[Head(nodes)].text) = <<>>
         THEN SubcategoryItems(Tail(nodes), anchors, cat_name)
    ELSE <<[type |-> SUBCATEGORY,
            name |-> _clean_text(anchors[Head(nodes)].text),
            href |-> anchors[Head(nodes)].href,
            parent |-> cat_name]>>
         \o SubcategoryItems(Tail(nodes), anchors, cat_name)

\* a faulty variant: the children of a block whose title is not resolved are
\* emitted all the same
BlockItemsUntitled(block, profile, cat_name) ==
    (IF cat_name = <<>> THEN <<>>
     ELSE <<[type |-> CATEGORY, name |-> cat_name, href |-> None, parent |-> None]>>)
    \o SubcategoryItems(block.nodes, block.anchors, cat_name)
    \o AllInItems(Picked(block, profile), {}, cat_name)

\* the body of `for block in blocks`: what one block appends to items
BlockItems(block, profile, cat_name) ==
    IF cat_name = <<>> THEN <<>>
    ELSE <<[type |-> CATEGORY, name |-> cat_name, href |-> None, parent |-> None]>>
         \o SubcategoryItems(block.nodes, block.anchors, cat_name)
         \o AllInItems(Picked(block, profile), {}, cat_name)

\* `not html or "<" not in html`
NoMarkup(page) == Falsy(page.text) \/ "<" \notin Range(page.text)

\* the profiles whose CATEGORY_BLOCKS match some block of the page
Matching(page) == {p \in Profiles : page.found[p] # <<>>}

\* a faulty variant: the first profile is used when no profile finds blocks
ChosenOrPrimary(page) ==
    IF Matching(page) = {} THEN 1
    ELSE CHOOSE p \in Matching(page) : \A q \in Matching(page) : p <= q

\* `chosen`: the first profile that finds blocks, 0 when none does
Chosen(page) ==
    IF Matching(page) = {} THEN 0
    ELSE CHOOSE p \in Matching(page) : \A q \in Matching(page) : p <= q

----------------------------------------------------------------------------
(* Pages given to parse_directory *)

\* anchors: text is get_text(" ", strip=True), the rest are attribute values
Anchor01 ==
    [text |-> <<"A","l","l"," ","i","n"," ","S","e","o">>,
     href |-> <<"/","s","e","o">>,
     class |-> None,
     data_test |-> None,
     aria_label |-> None,
     title |-> None]

Anchor02 ==
    [text |-> <<"A","L","L"," ","I","N"," ","S","e","o">>,
     href |-> <<"/","s","e","o">>,
     class |-> None,
     data_test |-> None,
     aria_label |-> None,
     title |-> None]

Anchor03 ==
    [text |-> <<"B","r","o","w","s","e">>,
     href |-> <<"/","s","e","o">>,
     class |-> None,
     data_test |-> None,
     aria_label |-> <<"A","l","l"," ","i","n"," ","S","e","o">>,
     title |-> None]

Anchor04 ==
    [text |-> <<"D","i","r">>,
     href |-> <<" ","/","d","i","r","e","c","t","o","r","y","/","p","p","c">>,
     class |-> None,
     data_test |-> None,
     aria_label |-> None,
     title |-> None]

Anchor05 ==
    [text |-> <<>>,
     href |-> <<"/","a","d","s">>,
     class |-> <<"b","t","n"," ","a","l","l","-","i","n">>,
     data_test |-> None,
     aria_label |-> None,
     title |-> <<"a","l","l"," ","i","n"," ","a","d","s">>]

Anchor06 ==
    [text |-> <<"P","p","c">>,
     href |-> <<"/","p","p","c">>,
     class |-> None,
     data_test |-> None,
     aria_label |-> None,
     title |-> None]

Anchor07 ==
    [text |-> <<>>,
     href |-> <<>>,
     class |-> None,
     data_test |-> None,
     aria_label |-> None,
     title |-> None]

Anchor08 ==
    [text |-> <<"A","l","l"," ","i","n",TAB,"P","p","c">>,
     href |-> <<"/","p","p","c">>,
     class |-> None,
     data_test |-> <<"a","l","l","-","i","n">>,
     aria_label |-> None,
     title |-> None]

\* blocks: the text under each title candidate (None where it selects
\* nothing), the item nodes and the anchors
Block01 ==
    [titles |-> <<<<"S","e","o">>>>,
     nodes |-> <<1>>,
     anchors |-> <<Anchor06, Anchor01>>]

Block02 ==
    [titles |-> <<None, <<>>>>,
     nodes |-> <<1>>,
     anchors |-> <<Anchor06, Anchor01>>]

Block03 ==
    [titles |-> <<<<>>, <<"A","d","s">>>>,
     nodes |-> <<0, 1>>,
     anchors |-> <<Anchor01, Anchor02>>]

Block04 ==
    [titles |-> <<<<"P","p","c">>>>,
     nodes |-> <<>>,
     anchors |-> <<Anchor03, Anchor04>>]

Block05 ==
    [titles |-> <<<<"S","e","o">>>>,
     nodes |-> <<1, 2>>,
     anchors |-> <<Anchor07, Anchor06, Anchor05>>]

Block06 ==
    [titles |-> <<<<" ","W","e","b"," ">>>>,
     nodes |-> <<1>>,
     anchors |-> <<Anchor06, Anchor08>>]

Block07 ==
    [titles |-> <<<<"S","e","o">>>>,
     nodes |-> <<>>,
     anchors |-> <<Anchor01, Anchor03, Anchor01>>]

Blocks == {Block01, Block02, Block03, Block04, Block05, Block06, Block07}

MaxBlocks == 2  \* most blocks a selector profile finds in a page

BlockLists == UNION {[1..k -> Blocks] : k \in 1..MaxBlocks}

\* a page of markup in which profile p, and no other, finds the blocks bs
MarkupPage(p, bs) ==
    [text |-> <<"<","p",">">>,
     found |-> [q \in Profiles |-> IF q = p THEN bs ELSE <<>>]]

\* a page without a tag, in which no selector finds anything
TextPage(t) == [text |-> t, found |-> [q \in Profiles |-> <<>>]]

Pages ==
    {MarkupPage(p, bs) : p \in Profiles, bs \in BlockLists}
        \cup {MarkupPage(1, <<>>), TextPage(None), TextPage(<<>>), TextPage(<<"S","e","o">>)}

\* every raw item parse_directory can emit for a block of these pages
ParsedItems ==
    UNION {Range(BlockItems(b, p, _first_match_text(b.titles))) : b \in Blocks, p \in Profiles}

----------------------------------------------------------------------------
(* normalize/lineage.py *)

\* a faulty variant: the parent slug is left out of the id
_build_id_flat(item_type, slug, parent_slug) ==
    IF item_type = CATEGORY THEN item_type \o <<":">> \o slug
    ELSE item_type \o <<":">> \o <<":">> \o slug

\* f"{item_type.value}:{slug}" or f"{item_type.value}:{parent_slug or ''}:{slug}"
_build_id(item_type, slug, parent_slug) ==
    IF item_type = CATEGORY THEN item_type \o <<":">> \o slug
    ELSE item_type \o <<":">> \o (IF Falsy(parent_slug) THEN <<>> ELSE parent_slug)
                   \o <<":">> \o slug

\* a declared type that looks like an All-in is coerced to ALL_IN
_coerce_type(v, name, href) ==
    LET t == coerce(v)
    IN  IF t = None THEN None
        ELSE IF t # ALL_IN /\ is_all_in(name, href) THEN ALL_IN
        ELSE t

----------------------------------------------------------------------------
(* Raw inputs of attach_lineage *)

\* raw items as the parser hands them over: {type, name, href, parent}
Raw01 ==
    [type |-> <<"c","a","t","e","g","o","r","y">>,
     name |-> <<"S","e","o">>,
     href |-> None,
     parent |-> None]

Raw02 ==
    [type |-> <<"c","a","t","e","g","o","r","y">>,
     name |-> <<"&">>,
     href |-> None,
     parent |-> None]

Raw03 ==
    [type |-> <<" ","C","a","t","e","g","o","r","y">>,
     name |-> <<"S","E","O">>,
     href |-> <<"/","s","e","o">>,
     parent |-> <<"P","p","c">>]

Raw04 ==
    [type |-> <<"s","u","b","c","a","t","e","g","o","r","y">>,
     name |-> <<"S","e","o">>,
     href |-> <<"/","s","e","o">>,
     parent |-> <<"S","e","o">>]

Raw05 ==
    [type |-> <<"s","u","b","c","a","t","e","g","o","r","y">>,
     name |-> <<"P","p","c">>,
     href |-> None,
     parent |-> <<" ","s","e","o",NBSP>>]

Raw06 ==
    [type |-> <<"s","u","b","c","a","t","e","g","o","r","y">>,
     name |-> <<"P","p","c">>,
     href |-> <<"h","t","t","p","s",":","/","/","X",".","c","o","/","p","p","c","?","u","t","m","_","a","=","1">>,
     parent |-> <<"N","o","p","e">>]

Raw07 ==
    [type |-> <<"s","u","b","c","a","t","e","g","o","r","y">>,
     name |-> <<"&">>,
     href |-> None,
     parent |-> <<"S","e","o">>]

Raw08 ==
    [type |-> <<"s","u","b","c","a","t","e","g","o","r","y">>,
     name |-> <<"A","d","s">>,
     href |-> <<"a","d","s">>,
     parent |-> <<"&">>]

Raw09 ==
    [type |-> <<"a","l","l","_","i","n">>,
     name |-> <<"A","l","l"," ","i","n"," ","P","p","c">>,
     href |-> <<"/","p","p","c">>,
     parent |-> <<"S","e","o">>]

Raw10 ==
    [type |-> <<"a","l","l","_","i","n">>,
     name |-> <<"A","l","l"," ","i","n"," ","&">>,
     href |-> None,
     parent |-> <<"S","e","o">>]

Raw11 ==
    [type |-> <<"a","l","l","_","i","n">>,
     name |-> <<"A","l","l"," ","i","n"," ","A","d","s">>,
     href |-> None,
     parent |-> <<"P","p","c">>]

Raw12 ==
    [type |-> <<"s","u","b","c","a","t","e","g","o","r","y">>,
     name |-> <<"a","l","l"," ","i","n"," "," ","P","P","C">>,
     href |-> None,
     parent |-> <<"S","e","o">>]

Raw13 ==
    [type |-> <<"c","a","t","e","g","o","r","y">>,
     name |-> <<"D","i","r">>,
     href |-> <<"/","d","i","r","e","c","t","o","r","y","/","d","i","r">>,
     parent |-> None]

Raw14 ==
    [type |-> <<"a","l","l","_","i","n">>,
     name |-> <<"A","l","l"," ","i","n"," ","P","p","c">>,
     href |-> None,
     parent |-> <<"N","o","p","e">>]

Raw15 ==
    [type |-> <<"b","o","g","u","s">>,
     name |-> <<"P","p","c">>,
     href |-> None,
     parent |-> <<"S","e","o">>]

Raw16 ==
    [type |-> <<"c","a","t","e","g","o","r","y">>,
     name |-> <<" ",NBSP,BEL>>,
     href |-> None,
     parent |-> None]

Raw17 ==
    [type |-> <<"c","a","t","e","g","o","r","y">>,
     name |-> <<"A","l","l"," ","i","n","n">>,
     href |-> None,
     parent |-> None]

RawItems ==
    {Raw01, Raw02, Raw03, Raw04, Raw05, Raw06, Raw07, Raw08,
     Raw09, Raw10, Raw11, Raw12, Raw13, Raw14, Raw15, Raw16, Raw17}

\* raw items for the runs on ids and on input order: two categories, a
\* subcategory that shares its slug with the other category, and all_in items
\* with one name declared under either category, and with no parent
Lin1 ==
    [type |-> <<"c","a","t","e","g","o","r","y">>,
     name |-> <<"S","e","o">>,
     href |-> None,
     parent |-> None]

Lin2 ==
    [type |-> <<"c","a","t","e","g","o","r","y">>,
     name |-> <<"A","d","s">>,
     href |-> None,
     parent |-> None]

Lin3 ==
    [type |-> <<"s","u","b","c","a","t","e","g","o","r","y">>,
     name |-> <<"S","e","o">>,
     href |-> None,
     parent |-> <<"A","d","s">>]

Lin4 ==
    [type |-> <<"a","l","l","_","i","n">>,
     name |-> <<"A","l","l"," ","i","n"," ","S","e","o">>,
     href |-> None,
     parent |-> <<"S","e","o">>]

Lin5 ==
    [type |-> <<"a","l","l","_","i","n">>,
     name |-> <<"A","l","l"," ","i","n"," ","S","e","o">>,
     href |-> None,
     parent |-> <<"A","d","s">>]

Lin6 ==
    [type |-> <<"a","l","l","_","i","n">>,
     name |-> <<"a","l","l","-","i","n"," ","s","e","o">>,
     href |-> None,
     parent |-> None]

LineageItems == {Lin1, Lin2, Lin3, Lin4, Lin5, Lin6}

\* the base_url the runner passes: DEFAULT_SOURCE_PAGE without "/categories"
BaseUrls == {<<"h","t","t","p","s",":","/","/","c","l","u","t","c","h",".","c","o">>}

----------------------------------------------------------------------------
(* normalize/lineage.py, first pass *)

\* raw.get("href") or "", stripped
RawHref(r) == IF Falsy(r.href) THEN <<>> ELSE Strip(r.href)

\* first pass: does the raw item get an interim record?
Survives(r) ==
    LET name == clean(r.name)
    IN  /\ name # <<>>
        /\ _coerce_type(r.type, name, RawHref(r)) # None

\* first pass: the interim record of a surviving raw item
InterimOf(r, base) ==
    LET name == clean(r.name)
        href == RawHref(r)
        parent_name == clean(r.parent)
    IN  [type |-> _coerce_type(r.type, name, href),
         name |-> name,
         slug |-> slugify(name),
         url |-> IF href # <<>> THEN canonicalize(base, href)
                 ELSE IF Falsy(base) THEN <<>> ELSE base,
         parent |-> IF parent_name = <<>> THEN None ELSE parent_name]

\* the first pass treats each raw item on its own: its outcome for every raw
\* item of the input universe and every item the parser emits, <<>> for an
\* item it skips
FirstPass ==
    [base \in BaseUrls |->
        [r \in RawItems \cup ParsedItems \cup LineageItems |->
            IF Survives(r) THEN <<InterimOf(r, base)>> ELSE <<>>]]

\* a faulty variant: each surviving item is put in front of the earlier ones
RECURSIVE InterimNewestFirst(_, _)
InterimNewestFirst(rs, base) ==
    IF rs = <<>> THEN <<>>
    ELSE InterimNewestFirst(Tail(rs), base) \o FirstPass[base][Head(rs)]

\* first pass: the interim list, in input order
RECURSIVE Interim(_, _)
Interim(rs, base) ==
    IF rs = <<>> THEN <<>>
    ELSE FirstPass[base][Head(rs)] \o Interim(Tail(rs), base)

\* a dict built by a loop of assignments d[key] = value, as the list of
\* <<key, value>> assignments in loop order; get returns the last one
DictHas(d, k) == \E i \in DOMAIN d : d[i][1] = k

\* what dict.get returns for a missing registry key (Python's None)
NoEntry == [name |-> None, slug |-> None, id |-> None]

DictGet(d, k) ==
    IF DictHas(d, k)
    THEN d[CHOOSE i \in DOMAIN d : d[i][1] = k /\ \A j \in DOMAIN d : d[j][1] = k => j <= i][2]
    ELSE NoEntry

\* categories: name_lower -> [slug, id]
RECURSIVE Categories(_)
Categories(interim) ==
    IF interim = <<>> THEN <<>>
    ELSE LET it == Head(interim)
         IN  IF it.type = CATEGORY
             THEN << <<Lower(it.name),
                       [name |-> it.name, slug |-> it.slug,
                        id |-> _build_id(CATEGORY, it.slug, None)]>> >>
                  \o Categories(Tail(interim))
             ELSE Categories(Tail(interim))

\* the registration of one subcategory, or <<>> when its parent is no category;
\* by_name selects the key: (cat_slug, name_lower) or (cat_slug, sub_slug)
SubRegistration(it, categories, by_name) ==
    IF it.type # SUBCATEGORY \/ Falsy(it.parent) \/ ~DictHas(categories, Lower(it.parent))
    THEN <<>>
    ELSE LET cat == DictGet(categories, Lower(it.parent))
         IN  << << <<cat.slug, IF by_name THEN Lower(it.name) ELSE it.slug>>,
                   [name |-> it.name, slug |-> it.slug,
                    id |-> _build_id(SUBCATEGORY, it.slug, cat.slug)] >> >>

\* subcategories_by_name / subcategories_by_slug
RECURSIVE Subcategories(_, _, _)
Subcategories(interim, categories, by_name) ==
    IF interim = <<>> THEN <<>>
    ELSE SubRegistration(Head(interim), categories, by_name)
         \o Subcategories(Tail(interim), categories, by_name)

\* the output record; a key the code does not set is Absent
OutItem(id, type, name, slug, url, parent, parent_slug, parent_id) ==
    [id |-> id, type |-> type, name |-> name, slug |-> slug, url |-> url,
     parent |-> parent,
     parent_slug |-> IF Falsy(parent_slug) THEN Absent ELSE parent_slug,
     parent_id |-> IF Falsy(parent_id) THEN Absent ELSE parent_id]

\* a faulty variant: the category keeps the parent name its raw item declared
FinalizeCategoryWithParent(it) ==
    OutItem(_build_id(CATEGORY, it.slug, None), it.type, it.name, it.slug, it.url,
            it.parent, Absent, Absent)

\* finalize: a category carries no parent key at all
FinalizeCategory(it) ==
    OutItem(_build_id(CATEGORY, it.slug, None), it.type, it.name, it.slug, it.url,
            Absent, Absent, Absent)

\* "Resolve category if provided": the category record, or NoEntry
ResolveCategory(it, categories) ==
    IF Falsy(it.parent) THEN NoEntry ELSE DictGet(categories, Lower(it.parent))

\* `if cat_slug:` -- the category resolved and its slug is not empty
CatResolved(cat) == cat # NoEntry /\ cat.slug # <<>>

FinalizeSubcategory(it, categories) ==
    LET cat == ResolveCategory(it, categories)
        parent_slug == IF CatResolved(cat) THEN cat.slug ELSE None
        parent_id == IF CatResolved(cat) THEN cat.id ELSE None
        parent_display == IF CatResolved(cat) THEN it.parent ELSE None
    IN  OutItem(_build_id(it.type, it.slug, parent_slug), it.type, it.name, it.slug,
                it.url, parent_display, parent_slug, parent_id)

\* Case A: the declared parent names a subcategory under the resolved category
CaseA(it, cat, subs_by_name) == DictGet(subs_by_name, <<cat.slug, Lower(it.parent)>>)

\* Case B: the label of "All in ... X" names a subcategory, by name or by slug
CaseB(it, cat, subs_by_name, subs_by_slug) ==
    LET label_slug == normalize_all_in_name(it.name)
        by_name == DictGet(subs_by_name, <<cat.slug, Lower(label_slug[1])>>)
    IN  IF by_name # NoEntry THEN by_name
        ELSE DictGet(subs_by_slug, <<cat.slug, label_slug[2]>>)

\* a faulty variant: Case A is skipped, only the label is looked up
AllInSubLabelOnly(it, cat, subs_by_name, subs_by_slug) ==
    IF ~CatResolved(cat) THEN NoEntry
    ELSE CaseB(it, cat, subs_by_name, subs_by_slug)

\* the subcategory Cases A and B pick, or NoEntry
AllInSub(it, cat, subs_by_name, subs_by_slug) ==
    LET a == CaseA(it, cat, subs_by_name)
    IN  IF ~CatResolved(cat) THEN NoEntry
        ELSE IF a # NoEntry THEN a
        ELSE CaseB(it, cat, subs_by_name, subs_by_slug)

\* the all_in output record with the parent fields chosen
AllInRecord(it, parent_display, parent_slug, parent_id) ==
    OutItem(_build_id(it.type, it.slug, parent_slug), it.type, it.name, it.slug,
            it.url, parent_display, parent_slug, parent_id)

\* Case C, `if not parent_slug and cat_slug`: the category when Cases A and B
\* gave no subcategory, or gave one with an empty slug
AllInParent(it, cat, sub) ==
    IF (sub = NoEntry \/ sub.slug = <<>>) /\ CatResolved(cat)
    THEN AllInRecord(it, it.parent, cat.slug, cat.id)
    ELSE IF sub # NoEntry THEN AllInRecord(it, sub.name, sub.slug, sub.id)
    ELSE AllInRecord(it, None, None, None)

AllInResolved(it, cat, subs_by_name, subs_by_slug) ==
    AllInParent(it, cat, AllInSub(it, cat, subs_by_name, subs_by_slug))

FinalizeAllIn(it, categories, subs_by_name, subs_by_slug) ==
    AllInResolved(it, ResolveCategory(it, categories), subs_by_name, subs_by_slug)

Finalize(it, categories, subs_by_name, subs_by_slug) ==
    IF it.type = CATEGORY THEN FinalizeCategory(it)
    ELSE IF it.type = SUBCATEGORY THEN FinalizeSubcategory(it, categories)
    ELSE FinalizeAllIn(it, categories, subs_by_name, subs_by_slug)

\* second pass: every interim item finalized against the registries
SecondPass(interim, categories, subs_by_name, subs_by_slug) ==
    [i \in DOMAIN interim |->
        Finalize(interim[i], categories, subs_by_name, subs_by_slug)]

\* the subcategory registries, built once the categories are registered
Registered(interim, categories) ==
    SecondPass(interim, categories,
               Subcategories(interim, categories, TRUE),
               Subcategories(interim, categories, FALSE))

\* a faulty variant: one pass, each item finalized against the registries of
\* the items up to it
NormalizeOnePass(interim) ==
    [i \in DOMAIN interim |->
        Registered(SubSeq(interim, 1, i), Categories(SubSeq(interim, 1, i)))[i]]

Normalize(interim) == Registered(interim, Categories(interim))

attach_lineage(raw_items, base) == Normalize(Interim(raw_items, base))

----------------------------------------------------------------------------
(* assemble_validate/dedupe.py *)

\* d.get(field): None for a key that is not there
Get(v) == IF v = Absent THEN None ELSE v

\* d.get(field) or ""
OrEmpty(v) == IF Falsy(v) THEN <<>> ELSE v

\* d.get(field) or None
OrNone(v) == IF Falsy(v) THEN None ELSE v

_is_abs_url(u) ==
    /\ ~Falsy(u)
    /\ LET s == Lower(Strip(u))
       IN  \/ StartsWith(s, <<"h","t","t","p",":","/","/">>)
           \/ StartsWith(s, <<"h","t","t","p","s",":","/","/">>)

\* faulty variants of the key of an ALL_IN item: the "All in" prefix is not
\* stripped; the default key is used
_all_in_key_unstripped(d) ==
    IF ~Falsy(d.parent_id) THEN <<ALL_IN, d.parent_id, <<>>>>
    ELSE <<ALL_IN, OrNone(d.parent_slug), slugify(OrEmpty(d.name))>>

_all_in_key_by_slug(d) ==
    <<ALL_IN, Lower(OrEmpty(d.slug)), OrNone(d.parent_slug)>>

_all_in_key(d) ==
    IF ~Falsy(d.parent_id) THEN <<ALL_IN, d.parent_id, <<>>>>
    ELSE <<ALL_IN, OrNone(d.parent_slug), normalize_all_in_name(OrEmpty(d.name))[2]>>

_default_key(d) ==
    <<Lower(OrEmpty(d.type)), Lower(OrEmpty(d.slug)), OrNone(d.parent_slug)>>

_key(d) ==
    IF Lower(OrEmpty(d.type)) = ALL_IN THEN _all_in_key(d) ELSE _default_key(d)

\* (url_score, name_len)
_score(record) ==
    << IF _is_abs_url(record.url) THEN 2 ELSE IF ~Falsy(record.url) THEN 1 ELSE 0,
       Len(Strip(OrEmpty(record.name))) >>

\* Python's tuple comparison a > b on pairs of ints
TupleGreater(a, b) == a[1] > b[1] \/ (a[1] = b[1] /\ a[2] > b[2])

\* a faulty variant: a tie replaces the kept record too
BetterOrEqual(it, kept) == ~TupleGreater(_score(kept), _score(it))

\* _score(it) > _score(kept)
Better(it, kept) == TupleGreater(_score(it), _score(kept))

\* a faulty variant: the newcomer replaces kept and carries nothing forward
ReplacementPlain(it, kept) == it

\* the newcomer replaces kept, carrying forward what it lacks
Replacement(it, kept) ==
    [it EXCEPT
        !.name = IF Falsy(it.name) /\ ~Falsy(kept.name) THEN kept.name ELSE it.name,
        !.url = IF Falsy(it.url) /\ ~Falsy(kept.url) THEN kept.url ELSE it.url,
        !.parent_id = IF Get(it.parent_id) = None /\ Get(kept.parent_id) # None
                      THEN kept.parent_id ELSE it.parent_id]

\* kept stays, back-filled from the candidate
Backfilled(kept, it) ==
    [kept EXCEPT
        !.url = IF Falsy(kept.url) /\ ~Falsy(it.url) THEN it.url ELSE kept.url,
        !.name = IF Falsy(kept.name) /\ ~Falsy(it.name) THEN it.name ELSE kept.name,
        !.parent_id = IF Get(kept.parent_id) = None /\ Get(it.parent_id) # None
                      THEN it.parent_id ELSE kept.parent_id]

\* `seen` is the list of <<key, kept record>> entries in insertion order
SeenHas(sn, k) == \E j \in DOMAIN sn : sn[j][1] = k

SeenIndex(sn, k) == CHOOSE j \in DOMAIN sn : sn[j][1] = k

\* seen[k]
SeenGet(sn, k) == sn[SeenIndex(sn, k)][2]

\* `seen` after the loop body ran on `it`
SeenAfter(sn, it) ==
    LET k == _key(it)
        j == SeenIndex(sn, k)
    IN  IF ~SeenHas(sn, k) THEN Append(sn, <<k, it>>)
        ELSE IF Better(it, sn[j][2]) THEN [sn EXCEPT ![j] = <<k, Replacement(it, sn[j][2])>>]
        ELSE [sn EXCEPT ![j] = <<k, Backfilled(sn[j][2], it)>>]

\* a faulty variant: seen[k] = it, the caller's own dict is kept for a new key
AliasAfterShared(sn, al, i, it) ==
    LET k == _key(it)
        j == SeenIndex(sn, k)
    IN  IF ~SeenHas(sn, k) THEN Append(al, i)
        ELSE IF Better(it, sn[j][2]) THEN [al EXCEPT ![j] = 0]
        ELSE al

\* which dict object each kept record is after the loop body ran on items[i]:
\* seen[k] = dict(it) and new = dict(it) each make a new dict (its values are
\* str or None, so the shallow copy shares nothing that can change)
AliasAfter(sn, al, i, it) ==
    LET k == _key(it)
        j == SeenIndex(sn, k)
    IN  IF ~SeenHas(sn, k) THEN Append(al, 0)
        ELSE IF Better(it, sn[j][2]) THEN [al EXCEPT ![j] = 0]
        ELSE al

\* the caller's list after the loop body ran on `it`: the back-fill writes
\* kept[...] = ... land in the dict object `kept` is
ItemsAfter(its, sn, al, it) ==
    LET k == _key(it)
        j == SeenIndex(sn, k)
    IN  IF SeenHas(sn, k) /\ ~Better(it, sn[j][2]) /\ al[j] # 0
        THEN [its EXCEPT ![al[j]] = Backfilled(sn[j][2], it)]
        ELSE its

\* a faulty variant: the key of a replaced record moves to the end
OrderAfterMoved(sn, ord, it) ==
    LET k == _key(it)
    IN  IF ~SeenHas(sn, k) THEN Append(ord, k)
        ELSE IF Better(it, SeenGet(sn, k))
             THEN Append(SelectSeq(ord, LAMBDA x : x # k), k)
        ELSE ord

\* `order` after the loop body ran on `it`
OrderAfter(sn, ord, it) ==
    IF ~SeenHas(sn, _key(it)) THEN Append(ord, _key(it)) ELSE ord

\* the hrefs given to canonicalize
Hrefs ==
    { <<"/","s","e","o">>,
      <<"a","d","s">>,
      <<"h","t","t","p","s",":","/","/","X",".","c","o","/","p","p","c","?","u","t","m","_","a","=","1">>,
      <<"/","/","h",".","c","o","/","p">>,
      <<"H","T","T","P",":","/","/","U","s","e","r","@","H","o","s","t",".","C","O",":","8","0","/","a","?","b","=","1","&","g","c","l","i","d","=","2","#","f">>,
      <<"h","t","t","p","s",":","/","/","h",".","c","o",":","4","4","3">>,
      <<"?","a">>,
      <<".",".","/","u","p">>,
      <<"/","a","/","/","b","/",".",".","/","c","/">>,
      <<"/","a","?","y","=","c","%","2","f","d","&","k","=">>,
      <<"h","t","t","p","s",":","/","/","h",".","c","o","/","/","a">>,
      <<"m","a","i","l","t","o",":","a","@","b",".","c","o">>,
      <<"/","a",";","b","/">>,
      <<"/","a",";","b">>,
      <<"h","t","t","p",":","/","/","/","/">>,
      <<"/","a"," ","/">>,
      <<"h","t","t","p","s",":","/","/","h",".","c","o","/","x","/",";","/">>,
      <<>>,
      <<"#","f">>,
      <<"/","a","?","b",";","c">>,
      <<"/","a"," ","b">>,
      <<"h","t","t","p","s",":","/","/","h",".","c","o","/","a","/","?","x","=","1"," ","2">>,
      <<"/","a","?","k","=","v","&","K","=","&","u","t","m","_","=","1","&","u","t","m","x","=","2","&","R","e","f","=","3","&","r","e","f","x","=","4","&","h","s","a","_","a","=","5","#","f">>,
      <<"/","a","?","a","&","&","b","=","&","=","c","&","d","=","e","=","f">>,
      <<"h","t","t","p","s",":","/","/","h",".","c","o","/","?","x","=","1","#","y","?","u","t","m","_","a","=","2">>,
      <<"/","a","?","%","6","7","c","l","i","d","=","1","&","k","=","%","4","1">>,
      <<"/","a","?","q","=","c","a","f","%","E","9","&","b","=","1">>,
      <<"/","a","?","x","+","y","=","a","+","b","&","q","=","%","c","3","%","a","9">>,
      <<"h","t","t","p",":","/","/","[","x","/","p">>,
      <<"/","/","[","x">>,
      <<"h","t","t","p","s",":","/","/","[",":",":","1","]","/","p">>,
      <<"j","a","v","a","s","c","r","i","p","t",":","v","o","i","d","(","0",")">>,
      <<" "," ","t","e","l",":","1"," ","2"," ">>,
      <<" "," "," ">>,
      <<"1","a",":","b">>,
      <<"H","T","T","P","S",":","/","/","h",".","c","o","/","[","x">> }

\* the bases given to canonicalize
UrlBases ==
    { None,
      <<"h","t","t","p","s",":","/","/","c","l","u","t","c","h",".","c","o">>,
      <<"h","t","t","p",":","/","/","a",".","c","o","/","x","/","y","?","q","=","1">>,
      <<>>,
      <<"h","t","t","p","s",":","/","/","[","c">> }

----------------------------------------------------------------------------
(* runtime_delivery/runner.py, platform_ops/governance.py, fetch/client.py *)

PROFILE_DEV == <<"d","e","v">>
PROFILE_CI == <<"c","i">>
PROFILE_PROD == <<"p","r","o","d">>

_ROBOTS_ON_PROFILES == {PROFILE_PROD}

\* governance.robots_policy(profile)
robots_policy(p) == IF Falsy(p) THEN FALSE ELSE Lower(p) \in _ROBOTS_ON_PROFILES

\* get_text(url, use_fixture=True, fixture_path): the exception it raises, None
\* when it returns (200, the file's text).  A fixture is the kind of its path
\* ("none" for an empty path, "missing" for a path that names no file, "file")
\* and the page the file holds.
get_text_raises(f) ==
    IF f.kind = "none" THEN <<"ValueError">>
    ELSE IF f.kind = "missing" THEN <<"FileNotFoundError">>
    ELSE None

----------------------------------------------------------------------------
(* fetch/backoff.py.  Durations are in sixteenths of a second and a draw of  *)
(* random.random() is in quarters, so that every product and quotient of the *)
(* function is exact, as it is in binary floating point for these values.    *)

\* sys.float_info.max_exp: 2.0 ** n overflows from this n on
MaxFloatExp == 1024

\* what a call did: the value it returned, or the exception it raised
Returned(v) == [raised |-> None, value |-> v]
Raising(e) == [raised |-> e, value |-> 0]

min(a, b) == IF b < a THEN b ELSE a
max(a, b) == IF b > a THEN b ELSE a

\* min(cap, base * 2.0 ** retry) for 0 <= retry < MaxFloatExp, by doubling
\* until the cap is reached
RECURSIVE CappedExp(_, _, _)
CappedExp(v, n, cap) ==
    IF n = 0 \/ v = 0 \/ v >= cap THEN min(cap, v)
    ELSE CappedExp(2 * v, n - 1, cap)

\* lines 74-87 of next_sleep: the jittered delay for the capped exponential
\* `e`, with `r` quarters drawn by random.random()
Jittered(e, cap, jitter, r) ==
    LET j == IF jitter = None THEN <<"f","u","l","l">> ELSE Lower(jitter)
        delay == IF j = <<"n","o","n","e">> THEN e
                 ELSE IF j = <<"e","q","u","a","l">>
                      THEN (e \div 2) + (r * (e \div 2)) \div 4
                      ELSE (r * e) \div 4
    IN  IF ~(delay >= 0) THEN 0 ELSE max(0, min(delay, cap))

\* next_sleep(retry, base, cap, jitter) when random.random() draws r quarters
next_sleep(retry, base, cap, jitter, r) ==
    IF cap <= 0 THEN Returned(0)
    ELSE IF max(retry, 0) >= MaxFloatExp THEN Raising(<<"OverflowError">>)
    ELSE Returned(Jittered(CappedExp(max(base, 0), max(retry, 0), cap), cap, jitter, r))

----------------------------------------------------------------------------
(* fetch/rate_limit.py.  Time is in tenths of a second, a token count in     *)
(* half tokens and a wait in twentieths of a second; rps is in tokens per    *)
(* second, a multiple of 5, so that every product and quotient is exact.     *)

\* 1.0, one whole token, in half tokens
OneToken == 2

\* RateLimiter(rps, burst) constructed at time `now`: _rps, the _Bucket's
\* fields and the holder of _lock (0 when it is free); `granted` counts the
\* tokens handed out and `born` keeps the time of construction
RateLimiter(rps, burst, now) ==
    [rps |-> rps, capacity |-> burst * OneToken, tokens |-> burst * OneToken,
     last_refill |-> now, lock |-> 0, granted |-> 0, born |-> now]

\* the same without the guard on elapsed
RefillUnguarded(l, now) ==
    [l EXCEPT !.tokens = min(l.capacity, l.tokens + ((now - l.last_refill) * l.rps) \div 5),
              !.last_refill = now]

\* RateLimiter._refill_locked(now)
_refill_locked(l, now) ==
    IF now - l.last_refill <= 0 THEN l
    ELSE [l EXCEPT !.tokens = min(l.capacity, l.tokens + ((now - l.last_refill) * l.rps) \div 5),
                   !.last_refill = now]

\* try_acquire, lines 72-73: the wait for the tokens missing from `l`
WaitFor(l) == max(0, (10 * (OneToken - l.tokens)) \div l.rps)

\* a thread that is in no call
IdleThread ==
    [at |-> "idle", op |-> "none", calls |-> 0, lim |-> 0, now |-> 0,
     refilled |-> 0, left |-> 0, wait |-> 0, wake |-> 0, stale |-> FALSE]

----------------------------------------------------------------------------
(* The runs *)

\* url1 = canonicalize(base_url, href_arg)
Canonicalize ==
    /\ pc = "canon"
    /\ url1' = canonicalize(base_url, href_arg)
    /\ pc' = "again"
    /\ UNCHANGED <<html, blk, raw, base_url, href_arg, url2, given, items, idx,
                   seen, alias, order, result, first, pass>>
    /\ UNCHANGED aside

\* canonicalize called on its own absolute http(s) result, with any base
Recanonicalize ==
    /\ pc = "again"
    /\ _is_abs_url(url1)
    /\ \E base \in UrlBases : url2' = canonicalize(base, url1)
    /\ pc' = "stable"
    /\ UNCHANGED <<html, blk, raw, base_url, href_arg, url1, given, items, idx,
                   seen, alias, order, result, first, pass>>
    /\ UNCHANGED aside

\* parse_directory up to the block loop: the early returns and the choice of
\* the selector profile
ParseStart ==
    /\ pc = "parse"
    /\ raw' = <<>>
    /\ blk' = 1
    /\ pc' = IF NoMarkup(html) \/ Chosen(html) = 0 THEN "lineage" ELSE "blocks"
    /\ UNCHANGED <<html, base_url, href_arg, url1, url2, given, items, idx,
                   seen, alias, order, result, first, pass>>
    /\ UNCHANGED aside

\* one iteration of `for block in blocks`
ParseBlock ==
    /\ pc = "blocks"
    /\ blk <= Len(html.found[Chosen(html)])
    /\ raw' = raw \o BlockItems(html.found[Chosen(html)][blk], Chosen(html),
                                _first_match_text(html.found[Chosen(html)][blk].titles))
    /\ blk' = blk + 1
    /\ UNCHANGED <<pc, html, base_url, href_arg, url1, url2, given, items, idx,
                   seen, alias, order, result, first, pass>>
    /\ UNCHANGED aside

\* return items; the runner hands them to attach_lineage
ParseReturn ==
    /\ pc = "blocks"
    /\ blk > Len(html.found[Chosen(html)])
    /\ pc' = "lineage"
    /\ UNCHANGED <<html, blk, raw, base_url, href_arg, url1, url2, given, items, idx,
                   seen, alias, order, result, first, pass>>
    /\ UNCHANGED aside

AttachLineage ==
    /\ pc = "lineage"
    /\ items' = attach_lineage(raw, base_url)
    /\ given' = items'
    /\ idx' = 1
    /\ pc' = "dedupe"
    /\ UNCHANGED <<html, blk, raw, base_url, href_arg, url1, url2, seen, alias, order,
                   result, first, pass>>
    /\ UNCHANGED aside

\* one iteration of `for it in items`
DedupeStep ==
    /\ pc = "dedupe"
    /\ idx <= Len(items)
    /\ seen' = SeenAfter(seen, items[idx])
    /\ alias' = AliasAfter(seen, alias, idx, items[idx])
    /\ items' = ItemsAfter(items, seen, alias, items[idx])
    /\ order' = OrderAfter(seen, order, items[idx])
    /\ idx' = idx + 1
    /\ UNCHANGED <<pc, html, blk, raw, base_url, href_arg, url1, url2, given, result,
                   first, pass>>
    /\ UNCHANGED aside

\* return [seen[k] for k in order]
DedupeReturn ==
    /\ pc = "dedupe"
    /\ idx > Len(items)
    /\ result' = [i \in DOMAIN order |-> SeenGet(seen, order[i])]
    /\ first' = IF pass = 1 THEN [i \in DOMAIN order |-> SeenGet(seen, order[i])] ELSE first
    /\ pc' = "done"
    /\ UNCHANGED <<html, blk, raw, base_url, href_arg, url1, url2, given, items, idx,
                   seen, alias, order, pass>>
    /\ UNCHANGED aside

\* dedupe_items called again on its own result
Rerun ==
    /\ pc = "done"
    /\ pass = 1
    /\ items' = result
    /\ idx' = 1
    /\ seen' = <<>>
    /\ alias' = <<>>
    /\ order' = <<>>
    /\ pass' = 2
    /\ pc' = "dedupe"
    /\ UNCHANGED <<html, blk, raw, base_url, href_arg, url1, url2, given, result, first>>
    /\ UNCHANGED aside

\* clean1 = clean(text_in)
Clean ==
    /\ pc = "clean"
    /\ clean1' = clean(text_in)
    /\ pc' = "reclean"
    /\ UNCHANGED <<outsideText, text_in, clean2, slug1, slug2>>

\* clean called on its own result
CleanAgain ==
    /\ pc = "reclean"
    /\ clean2' = clean(clean1)
    /\ pc' = "slugify"
    /\ UNCHANGED <<outsideText, text_in, clean1, slug1, slug2>>

\* slug1 = slugify(text_in)
Slugify ==
    /\ pc = "slugify"
    /\ slug1' = slugify(text_in)
    /\ pc' = "reslugify"
    /\ UNCHANGED <<outsideText, text_in, clean1, clean2, slug2>>

\* slugify called on its own result
SlugifyAgain ==
    /\ pc = "reslugify"
    /\ slug2' = slugify(slug1)
    /\ pc' = "text_done"
    /\ UNCHANGED <<outsideText, text_in, clean1, clean2, slug1>>

\* run_build, line 42: config.load takes no parameter, so the call
\* load_config(profile=profile) raises TypeError; the call stands before the
\* try block, so no finally clause runs
LoadConfig ==
    /\ pc = "call"
    /\ exc' = <<"TypeError">>
    /\ pc' = "exited"
    /\ UNCHANGED <<pipeline, outsideBuild, run_profile, fixture, include_all, exit_code,
                   deadletter, validation, written, counters, flushed>>

\* run_build, lines 54-55: the robots policy is looked up and counted
Governance ==
    /\ pc = "governance"
    /\ counters' = Append(counters, <<"robots_policy_checked", robots_policy(run_profile)>>)
    /\ pc' = "fetch"
    /\ UNCHANGED <<pipeline, outsideBuild, run_profile, fixture, include_all, exit_code,
                   exc, deadletter, validation, written, flushed>>

\* run_build, lines 58-67: get_text raises when the fixture path is empty or
\* names no file; an empty file is a fetch error
Fetch ==
    /\ pc = "fetch"
    /\ exc' = get_text_raises(fixture)
    /\ exit_code' = IF get_text_raises(fixture) = None /\ Falsy(fixture.page.text)
                    THEN 2 ELSE exit_code
    /\ deadletter' = IF get_text_raises(fixture) = None /\ Falsy(fixture.page.text)
                     THEN Append(deadletter, "fetch") ELSE deadletter
    /\ counters' = IF get_text_raises(fixture) = None /\ ~Falsy(fixture.page.text)
                   THEN Append(counters, <<"fetch_ok">>) ELSE counters
    /\ html' = IF get_text_raises(fixture) = None THEN fixture.page ELSE html
    /\ base_url' = <<"h","t","t","p","s",":","/","/","c","l","u","t","c","h",".","c","o">>
    /\ pc' = IF get_text_raises(fixture) = None /\ ~Falsy(fixture.page.text)
             THEN "parse" ELSE "finally"
    /\ UNCHANGED <<blk, raw, href_arg, url1, url2, given, items, idx, seen, alias, order,
                   result, first, pass>>
    /\ UNCHANGED <<outsideBuild, run_profile, fixture, include_all, validation, written,
                   flushed>>

\* run_build, lines 71-99: the counts, the document and its validation; the
\* schema file is not part of the sources, so validate_taxonomy may return or
\* raise (whatever it raises is caught at line 93)
Validate ==
    /\ pc = "done"
    /\ counters' = counters \o << <<"found_categories">>, <<"found_subcategories">>,
                                  <<"found_all_in">>, <<"parsed_items">>,
                                  <<"normalized_items">>, <<"deduped_items">> >>
    /\ \E outcome \in {"ok", "failed"} :
          /\ validation' = outcome
          /\ deadletter' = IF outcome = "ok" THEN deadletter ELSE Append(deadletter, "validate")
          /\ exit_code' = IF outcome = "ok" THEN exit_code ELSE 2
          /\ pc' = IF outcome = "ok" THEN "write" ELSE "finally"
    /\ UNCHANGED <<pipeline, outsideBuild, run_profile, fixture, include_all, exc, written,
                   flushed>>

\* run_build, lines 102-111: provenance is stamped and taxonomy.json written
WriteTaxonomy ==
    /\ pc = "write"
    /\ written' = Append(written, "taxonomy")
    /\ pc' = "choices"
    /\ UNCHANGED <<pipeline, outsideBuild, run_profile, fixture, include_all, exit_code,
                   exc, deadletter, validation, counters, flushed>>

\* run_build, lines 113-127: choices.json is written and 0 returned
WriteChoices ==
    /\ pc = "choices"
    /\ written' = Append(written, "choices")
    /\ exit_code' = 0
    /\ pc' = "finally"
    /\ UNCHANGED <<pipeline, outsideBuild, run_profile, fixture, include_all, exc,
                   deadletter, validation, counters, flushed>>

\* run_build, lines 129-132: the finally clause flushes the metrics, then the
\* return or the exception goes on to the caller
Finally ==
    /\ pc = "finally"
    /\ flushed' = Append(flushed, counters)
    /\ counters' = <<>>
    /\ pc' = "exited"
    /\ UNCHANGED <<pipeline, outsideBuild, run_profile, fixture, include_all, exit_code,
                   exc, deadletter, validation, written>>

MaxTries == 3   \* most calls of next_sleep in a backoff run

\* one more call of next_sleep, for the next retry count and the same draw
NextSleep ==
    /\ pc = "backoff"
    /\ Len(delays) < MaxTries
    /\ \A i \in DOMAIN delays : delays[i].raised = None
    /\ delays' = Append(delays, next_sleep(retry_arg, base_arg, cap_arg, jitter_arg, rand))
    /\ retry_arg' = retry_arg + 1
    /\ UNCHANGED <<pc, outsideBackoff, base_arg, cap_arg, jitter_arg, rand>>

MaxCalls == 2   \* most calls a thread makes on a RateLimiter
MaxModuleCalls == 3     \* most calls a thread makes of the module's acquire()
MaxClock == 2   \* the time at which a rate limiter run is cut off

\* the threads of a rate limiter run
Threads == {1, 2}

\* time passes
Tick ==
    /\ pc = "limiter"
    /\ clock < MaxClock
    /\ clock' = clock + 1
    /\ UNCHANGED <<outsideLimiter, limiters, _GLOBAL, threads>>

\* thread t calls try_acquire() on the limiter
CallTryAcquire(t) ==
    /\ pc = "limiter"
    /\ threads[t].at = "idle"
    /\ threads[t].calls < MaxCalls
    /\ threads' = [threads EXCEPT ![t].at = "read", ![t].op = "try_acquire",
                                  ![t].lim = 1, ![t].calls = @ + 1]
    /\ UNCHANGED <<outsideLimiter, clock, limiters, _GLOBAL>>

\* thread t calls acquire() on the limiter
CallAcquire(t) ==
    /\ pc = "limiter"
    /\ threads[t].at = "idle"
    /\ threads[t].calls < MaxCalls
    /\ threads' = [threads EXCEPT ![t].at = "read", ![t].op = "acquire",
                                  ![t].lim = 1, ![t].calls = @ + 1]
    /\ UNCHANGED <<outsideLimiter, clock, limiters, _GLOBAL>>

\* try_acquire, line 64: now = time.monotonic()
ReadClock(t) ==
    /\ pc = "limiter"
    /\ threads[t].at = "read"
    /\ threads' = [threads EXCEPT ![t].at = "lock", ![t].now = clock]
    /\ UNCHANGED <<outsideLimiter, clock, limiters, _GLOBAL>>

\* try_acquire, line 65: with self._lock, entered when the lock is free
Lock(t) ==
    /\ pc = "limiter"
    /\ threads[t].at = "lock"
    /\ limiters[threads[t].lim].lock = 0
    /\ limiters' = [limiters EXCEPT ![threads[t].lim].lock = t]
    /\ threads' = [threads EXCEPT ![t].at = "locked"]
    /\ UNCHANGED <<outsideLimiter, clock, _GLOBAL>>

\* try_acquire, lines 66-74, under the lock: refill, then take a token or
\* compute the wait; the lock is released on return.  In acquire (lines
\* 78-83) a positive wait is slept and the loop tries again.
TryAcquireLocked(t) ==
    /\ pc = "limiter"
    /\ threads[t].at = "locked"
    /\ LET k == threads[t].lim
           b == _refill_locked(limiters[k], threads[t].now)
           took == b.tokens >= OneToken
           wait == IF took THEN 0 ELSE WaitFor(b)
           after == IF took THEN [b EXCEPT !.tokens = @ - OneToken, !.granted = @ + 1]
                    ELSE b
       IN  /\ limiters' = [limiters EXCEPT ![k] = [after EXCEPT !.lock = 0]]
           /\ threads' = [threads EXCEPT
                    ![t].at = IF threads[t].op = "acquire" /\ wait > 0
                              THEN "sleep" ELSE "idle",
                    ![t].refilled = b.tokens,
                    ![t].left = after.tokens,
                    ![t].wait = wait,
                    ![t].wake = 2 * clock + wait,
                    ![t].stale = threads[t].now < limiters[k].last_refill]
    /\ UNCHANGED <<outsideLimiter, clock, _GLOBAL>>

\* acquire, line 83: time.sleep(wait) returns once the wait has passed
Wake(t) ==
    /\ pc = "limiter"
    /\ threads[t].at = "sleep"
    /\ 2 * clock >= threads[t].wake
    /\ threads' = [threads EXCEPT ![t].at = "read"]
    /\ UNCHANGED <<outsideLimiter, clock, limiters, _GLOBAL>>

\* thread t calls the module's acquire(): line 101, the test of _GLOBAL
CallModuleAcquire(t) ==
    /\ pc = "limiter"
    /\ threads[t].at = "idle"
    /\ threads[t].calls < MaxModuleCalls
    /\ threads' = [threads EXCEPT ![t].at = IF _GLOBAL = 0 THEN "init" ELSE "load",
                                  ![t].op = "acquire", ![t].calls = @ + 1]
    /\ UNCHANGED <<outsideLimiter, clock, limiters, _GLOBAL>>

\* the module's acquire(), line 102: _GLOBAL = RateLimiter()
GlobalInit(t) ==
    /\ pc = "limiter"
    /\ threads[t].at = "init"
    /\ limiters' = Append(limiters, RateLimiter(5, 5, clock))
    /\ _GLOBAL' = Len(limiters) + 1
    /\ threads' = [threads EXCEPT ![t].at = "load"]
    /\ UNCHANGED <<outsideLimiter, clock>>

\* the module's acquire(), line 103: _GLOBAL is read and its acquire() called
GlobalLoad(t) ==
    /\ pc = "limiter"
    /\ threads[t].at = "load"
    /\ threads' = [threads EXCEPT ![t].at = "read", ![t].lim = _GLOBAL]
    /\ UNCHANGED <<outsideLimiter, clock, limiters, _GLOBAL>>

----------------------------------------------------------------------------
(* Inputs *)

MaxRaw == 3     \* longest raw item list given to attach_lineage
MaxNorm == 3    \* longest normalized item list given to dedupe_items

\* all sequences over S of length at most n
SeqsUpTo(S, n) == UNION {[1..k -> S] : k \in 0..n}

\* normalized items of every shape dedupe_items may be given
Norm01 ==
    [id |-> <<"s","u","b","c","a","t","e","g","o","r","y",":","m",":","s","e","o">>,
     type |-> <<"s","u","b","c","a","t","e","g","o","r","y">>,
     name |-> <<"S","e","o">>,
     slug |-> <<"s","e","o">>,
     url |-> <<>>,
     parent |-> <<"M">>,
     parent_slug |-> <<"m">>,
     parent_id |-> <<"c","a","t","e","g","o","r","y",":","m">>]

Norm02 ==
    [id |-> <<"s","u","b","c","a","t","e","g","o","r","y",":","m",":","s","e","o">>,
     type |-> <<"s","u","b","c","a","t","e","g","o","r","y">>,
     name |-> <<"S","E","O","!","!">>,
     slug |-> <<"s","e","o">>,
     url |-> <<"/","s","e","o">>,
     parent |-> <<"M">>,
     parent_slug |-> <<"m">>,
     parent_id |-> Absent]

Norm03 ==
    [id |-> <<"s","u","b","c","a","t","e","g","o","r","y",":","m",":","s","e","o">>,
     type |-> <<"s","u","b","c","a","t","e","g","o","r","y">>,
     name |-> <<>>,
     slug |-> <<"s","e","o">>,
     url |-> <<"h","t","t","p","s",":","/","/","x",".","c","o","/","s","e","o">>,
     parent |-> None,
     parent_slug |-> <<"m">>,
     parent_id |-> Absent]

Norm04 ==
    [id |-> <<"a","l","l","_","i","n",":","s","e","o",":","a","l","l","-","i","n","-","s","e","o">>,
     type |-> <<"a","l","l","_","i","n">>,
     name |-> <<"A","l","l"," ","i","n"," ","S","e","o">>,
     slug |-> <<"a","l","l","-","i","n","-","s","e","o">>,
     url |-> <<>>,
     parent |-> <<"S","e","o">>,
     parent_slug |-> <<"s","e","o">>,
     parent_id |-> <<"s","u","b","c","a","t","e","g","o","r","y",":","m",":","s","e","o">>]

Norm05 ==
    [id |-> <<"a","l","l","_","i","n",":","s","e","o",":","a","l","l","-","s","e","o">>,
     type |-> <<"a","l","l","_","i","n">>,
     name |-> <<"A","l","l"," ","S","e","o">>,
     slug |-> <<"a","l","l","-","s","e","o">>,
     url |-> <<"H","T","T","P",":","/","/","x",".","c","o","/","a","l","l">>,
     parent |-> <<"S","e","o">>,
     parent_slug |-> <<"s","e","o">>,
     parent_id |-> <<"s","u","b","c","a","t","e","g","o","r","y",":","m",":","s","e","o">>]

Norm06 ==
    [id |-> <<"a","l","l","_","i","n",":",":","a","l","l","-","i","n","-","s","e","o">>,
     type |-> <<"a","l","l","_","i","n">>,
     name |-> <<"A","l","l"," ","i","n"," ","S","e","o">>,
     slug |-> <<"a","l","l","-","i","n","-","s","e","o">>,
     url |-> <<"/","a","l","l">>,
     parent |-> None,
     parent_slug |-> Absent,
     parent_id |-> Absent]

Norm07 ==
    [id |-> <<"a","l","l","_","i","n",":",":","s","e","o">>,
     type |-> <<"a","l","l","_","i","n">>,
     name |-> <<"S","e","o">>,
     slug |-> <<"s","e","o">>,
     url |-> <<>>,
     parent |-> None,
     parent_slug |-> Absent,
     parent_id |-> Absent]

Norm08 ==
    [id |-> <<"a","l","l","_","i","n",":","m",":","a","l","l","-","i","n">>,
     type |-> <<"a","l","l","_","i","n">>,
     name |-> <<"A","l","l"," ","i","n">>,
     slug |-> <<"a","l","l","-","i","n">>,
     url |-> <<"h","t","t","p","s",":","/","/","x",".","c","o","/","a">>,
     parent |-> <<"M">>,
     parent_slug |-> <<"m">>,
     parent_id |-> Absent]

Norm09 ==
    [id |-> <<"a","l","l","_","i","n",":","m",":">>,
     type |-> <<"a","l","l","_","i","n">>,
     name |-> <<>>,
     slug |-> <<>>,
     url |-> <<"h","t","t","p","s",":","/","/","x",".","c","o","/","k">>,
     parent |-> <<"M">>,
     parent_slug |-> <<"m">>,
     parent_id |-> <<>>]

Norm10 ==
    [id |-> <<"a","l","l","_","i","n",":","m",":","x">>,
     type |-> <<"a","l","l","_","i","n">>,
     name |-> <<"X">>,
     slug |-> <<"x">>,
     url |-> <<"/","d">>,
     parent |-> <<"M">>,
     parent_slug |-> <<"m">>,
     parent_id |-> <<"m">>]

Norm11 ==
    [id |-> <<"a","l","l","_","i","n",":","m",":">>,
     type |-> <<"a","l","l","_","i","n">>,
     name |-> <<"&">>,
     slug |-> <<>>,
     url |-> <<"/","m">>,
     parent |-> <<"M">>,
     parent_slug |-> <<"m">>,
     parent_id |-> Absent]

Norm12 ==
    [id |-> <<"a","l","l","_","i","n",":","m",":","x">>,
     type |-> <<"a","l","l","_","i","n">>,
     name |-> <<"X">>,
     slug |-> <<"x">>,
     url |-> <<"/","x">>,
     parent |-> <<"M">>,
     parent_slug |-> <<"m">>,
     parent_id |-> None]

Norm13 ==
    [id |-> <<"c","a","t","e","g","o","r","y",":","s","e","o">>,
     type |-> <<"c","a","t","e","g","o","r","y">>,
     name |-> <<"S","e","o">>,
     slug |-> <<"s","e","o">>,
     url |-> <<>>,
     parent |-> Absent,
     parent_slug |-> Absent,
     parent_id |-> Absent]

Norm14 ==
    [id |-> <<"c","a","t","e","g","o","r","y",":","s","e","o">>,
     type |-> <<"c","a","t","e","g","o","r","y">>,
     name |-> <<"S","E","O">>,
     slug |-> <<"s","e","o">>,
     url |-> <<"h","t","t","p","s",":","/","/","x",".","c","o","/","s","e","o">>,
     parent |-> Absent,
     parent_slug |-> Absent,
     parent_id |-> Absent]

NormItems ==
    {Norm01, Norm02, Norm03, Norm04, Norm05, Norm06, Norm07,
     Norm08, Norm09, Norm10, Norm11, Norm12, Norm13, Norm14}

----------------------------------------------------------------------------
(* Specifications *)

\* attach_lineage, then dedupe_items on its output (the runner's pipeline)
Init ==
    /\ pc = "lineage"
    /\ html = None
    /\ blk = 1
    /\ href_arg = None
    /\ url1 = None
    /\ url2 = None
    /\ alias = <<>>
    /\ raw \in SeqsUpTo(RawItems, MaxRaw)
    /\ base_url \in BaseUrls
    /\ given = <<>>
    /\ items = <<>>
    /\ idx = 1
    /\ seen = <<>>
    /\ order = <<>>
    /\ result = <<>>
    /\ first = <<>>
    /\ pass = 1
    /\ AsideIdle

Next ==
    \/ AttachLineage
    \/ DedupeStep
    \/ DedupeReturn

Spec == Init /\ [][Next]_vars

\* the runner's pipeline on a page: parse_directory, attach_lineage, dedupe_items
InitParse ==
    /\ pc = "parse"
    /\ html \in Pages
    /\ blk = 1
    /\ raw = <<>>
    /\ base_url \in BaseUrls
    /\ href_arg = None
    /\ url1 = None
    /\ url2 = None
    /\ given = <<>>
    /\ items = <<>>
    /\ idx = 1
    /\ seen = <<>>
    /\ alias = <<>>
    /\ order = <<>>
    /\ result = <<>>
    /\ first = <<>>
    /\ pass = 1
    /\ AsideIdle

NextParse ==
    \/ ParseStart
    \/ ParseBlock
    \/ ParseReturn
    \/ AttachLineage
    \/ DedupeStep
    \/ DedupeReturn

SpecParse == InitParse /\ [][NextParse]_vars

\* canonicalize on an href, then on its own result
InitUrl ==
    /\ pc = "canon"
    /\ html = None
    /\ blk = 1
    /\ raw = <<>>
    /\ base_url \in UrlBases
    /\ href_arg \in Hrefs
    /\ url1 = None
    /\ url2 = None
    /\ given = <<>>
    /\ items = <<>>
    /\ idx = 1
    /\ seen = <<>>
    /\ alias = <<>>
    /\ order = <<>>
    /\ result = <<>>
    /\ first = <<>>
    /\ pass = 1
    /\ AsideIdle

NextUrl ==
    \/ Canonicalize
    \/ Recanonicalize

SpecUrl == InitUrl /\ [][NextUrl]_vars

\* dedupe_items on an arbitrary list of normalized items, then on its own result
InitDedupe ==
    /\ pc = "dedupe"
    /\ html = None
    /\ blk = 1
    /\ href_arg = None
    /\ url1 = None
    /\ url2 = None
    /\ alias = <<>>
    /\ raw = <<>>
    /\ base_url = None
    /\ given \in SeqsUpTo(NormItems, MaxNorm)
    /\ items = given
    /\ idx = 1
    /\ seen = <<>>
    /\ order = <<>>
    /\ result = <<>>
    /\ first = <<>>
    /\ pass = 1
    /\ AsideIdle

NextDedupe ==
    \/ DedupeStep
    \/ DedupeReturn
    \/ Rerun

SpecDedupe == InitDedupe /\ [][NextDedupe]_vars

MaxText == 3    \* longest string given to clean and slugify

\* the characters of the strings given to clean and slugify
TextChars == {"e", "B", " ", "-", NBSP, TAB, BEL, ACUTE, EACUTE}

\* the values given to clean and slugify: None and every short string
Texts == {None} \cup SeqsUpTo(TextChars, MaxText)

\* clean and slugify on a value, then each on its own result
InitText ==
    /\ pc = "clean"
    /\ PipelineIdle
    /\ BuildIdle
    /\ BackoffIdle
    /\ LimiterIdle
    /\ text_in \in Texts
    /\ clean1 = None
    /\ clean2 = None
    /\ slug1 = None
    /\ slug2 = None

NextText ==
    \/ Clean
    \/ CleanAgain
    \/ Slugify
    \/ SlugifyAgain

SpecText == InitText /\ [][NextText]_vars

\* the pages a fixture file may hold: an empty file, a file of plain text, and
\* every page of markup with one block
FixturePages ==
    {TextPage(<<>>), TextPage(<<"S","e","o">>), MarkupPage(1, <<>>)}
        \cup {MarkupPage(p, <<b>>) : p \in Profiles, b \in Blocks}

\* the fixtures run_build may be pointed at
Fixtures ==
    {[kind |-> "none", page |-> TextPage(<<>>)], [kind |-> "missing", page |-> TextPage(<<>>)]}
        \cup {[kind |-> "file", page |-> page] : page \in FixturePages}

RunProfiles == {PROFILE_DEV, PROFILE_CI, PROFILE_PROD}

\* run_build from its call
InitRun ==
    /\ pc = "call"
    /\ PipelineIdle
    /\ TextIdle
    /\ BackoffIdle
    /\ LimiterIdle
    /\ run_profile \in RunProfiles
    /\ fixture \in Fixtures
    /\ include_all \in {None, <<"True">>, <<"False">>}
    /\ exit_code = None
    /\ exc = None
    /\ deadletter = <<>>
    /\ validation = "not_run"
    /\ written = <<>>
    /\ counters = <<>>
    /\ flushed = <<>>

\* run_build as written: the call at line 42 raises in every run, so
\* LoadConfig is its only step
NextRun ==
    \/ LoadConfig

SpecRun == InitRun /\ [][NextRun]_vars

\* the with block of run_build (lines 51-132), entered with a configuration
\* loaded and include_all set
InitBody ==
    /\ pc = "governance"
    /\ PipelineIdle
    /\ TextIdle
    /\ BackoffIdle
    /\ LimiterIdle
    /\ run_profile \in RunProfiles
    /\ fixture \in Fixtures
    /\ include_all \in {<<"True">>, <<"False">>}
    /\ exit_code = None
    /\ exc = None
    /\ deadletter = <<>>
    /\ validation = "not_run"
    /\ written = <<>>
    /\ counters = <<>>
    /\ flushed = <<>>

NextBody ==
    \/ Governance
    \/ Fetch
    \/ ParseStart
    \/ ParseBlock
    \/ ParseReturn
    \/ AttachLineage
    \/ DedupeStep
    \/ DedupeReturn
    \/ Validate
    \/ WriteTaxonomy
    \/ WriteChoices
    \/ Finally

SpecBody == InitBody /\ [][NextBody]_vars

MaxLineage == 3     \* longest list of LineageItems given to attach_lineage

\* the pipeline on lists of LineageItems
InitLineage ==
    /\ pc = "lineage"
    /\ html = None
    /\ blk = 1
    /\ href_arg = None
    /\ url1 = None
    /\ url2 = None
    /\ alias = <<>>
    /\ raw \in SeqsUpTo(LineageItems, MaxLineage)
    /\ base_url \in BaseUrls
    /\ given = <<>>
    /\ items = <<>>
    /\ idx = 1
    /\ seen = <<>>
    /\ order = <<>>
    /\ result = <<>>
    /\ first = <<>>
    /\ pass = 1
    /\ AsideIdle

NextLineage ==
    \/ AttachLineage
    \/ DedupeStep
    \/ DedupeReturn

SpecLineage == InitLineage /\ [][NextLineage]_vars

\* the arguments given to next_sleep: retry counts around zero and around
\* the largest exponent of a float, bases and caps in sixteenths of a second
Retries == {-1, 0, 1, MaxFloatExp - 2}
Bases == {-16, 0, 8, 16}
Caps == {-16, 0, 8, 24, 64}
Jitters == {None, <<"n","o","n","e">>, <<"E","q","u","a","l">>, <<"f","u","l","l">>,
            <<"x">>}
Draws == 0 .. 3

\* next_sleep for successive retry counts, with one draw
InitBackoff ==
    /\ pc = "backoff"
    /\ PipelineIdle
    /\ TextIdle
    /\ BuildIdle
    /\ LimiterIdle
    /\ retry_arg \in Retries
    /\ base_arg \in Bases
    /\ cap_arg \in Caps
    /\ jitter_arg \in Jitters
    /\ rand \in Draws
    /\ delays = <<>>

NextBackoff ==
    \/ NextSleep

SpecBackoff == InitBackoff /\ [][NextBackoff]_vars

\* the arguments given to RateLimiter
RpsChoices == {5, 10}
Bursts == {1, 2}

\* threads calling try_acquire and acquire on one RateLimiter
InitLimiter ==
    /\ pc = "limiter"
    /\ PipelineIdle
    /\ TextIdle
    /\ BuildIdle
    /\ BackoffIdle
    /\ clock = 0
    /\ \E rps \in RpsChoices, burst \in Bursts : limiters = <<RateLimiter(rps, burst, 0)>>
    /\ _GLOBAL = 0
    /\ threads = [t \in Threads |-> IdleThread]

NextLimiter ==
    \/ Tick
    \/ \E t \in Threads : CallTryAcquire(t)
    \/ \E t \in Threads : CallAcquire(t)
    \/ \E t \in Threads : ReadClock(t)
    \/ \E t \in Threads : Lock(t)
    \/ \E t \in Threads : TryAcquireLocked(t)
    \/ \E t \in Threads : Wake(t)

SpecLimiter == InitLimiter /\ [][NextLimiter]_vars

\* threads calling the module's acquire() before any configure_global
InitGlobal ==
    /\ pc = "limiter"
    /\ PipelineIdle
    /\ TextIdle
    /\ BuildIdle
    /\ BackoffIdle
    /\ clock = 0
    /\ limiters = <<>>
    /\ _GLOBAL = 0
    /\ threads = [t \in Threads |-> IdleThread]

NextGlobal ==
    \/ Tick
    \/ \E t \in Threads : CallModuleAcquire(t)
    \/ \E t \in Threads : GlobalInit(t)
    \/ \E t \in Threads : GlobalLoad(t)
    \/ \E t \in Threads : ReadClock(t)
    \/ \E t \in Threads : Lock(t)
    \/ \E t \in Threads : TryAcquireLocked(t)
    \/ \E t \in Threads : Wake(t)

SpecGlobal == InitGlobal /\ [][NextGlobal]_vars

----------------------------------------------------------------------------
(* Properties of dedupe_items (checked under SpecDedupe) *)

\* the dedup key as the data model states it
StatedKey(d) ==
    IF d.type = ALL_IN
    THEN IF ~Falsy(d.parent_id) THEN <<ALL_IN, d.parent_id, <<>>>>
         ELSE <<ALL_IN, OrNone(d.parent_slug), normalize_all_in_name(OrEmpty(d.name))[2]>>
    ELSE <<d.type, d.slug, OrNone(d.parent_slug)>>

\* the score as the design states it: (urlQuality, length of the trimmed name)
StatedScore(d) ==
    LET u == Lower(Strip(OrEmpty(d.url)))
    IN  << IF StartsWith(u, <<"h","t","t","p",":","/","/">>)
              \/ StartsWith(u, <<"h","t","t","p","s",":","/","/">>) THEN 2
           ELSE IF OrEmpty(d.url) # <<>> THEN 1 ELSE 0,
           Len(Strip(OrEmpty(d.name))) >>

StrictlyGreater(a, b) == a[1] > b[1] \/ (a[1] = b[1] /\ a[2] > b[2])

\* the stated key and score of each item of the input universe
KeyOf == [d \in NormItems |-> StatedKey(d)]
ScoreOf == [d \in NormItems |-> StatedScore(d)]

\* the keys of the input items xs, each at the position of its first occurrence
RECURSIVE FirstKeys(_, _)
FirstKeys(xs, acc) ==
    IF xs = <<>> THEN acc
    ELSE IF \E j \in DOMAIN acc : acc[j] = KeyOf[Head(xs)]
         THEN FirstKeys(Tail(xs), acc)
    ELSE FirstKeys(Tail(xs), Append(acc, KeyOf[Head(xs)]))

\* a field the item lacks: name and url when empty or missing, parent_id when missing
LacksText(v) == Falsy(v)
LacksId(v) == v = Absent \/ v = None

\* the later item `b` made the kept record, inheriting what it lacks from `a`
Inherit(b, a) ==
    [b EXCEPT !.name = IF LacksText(b.name) /\ ~LacksText(a.name) THEN a.name ELSE b.name,
              !.url = IF LacksText(b.url) /\ ~LacksText(a.url) THEN a.url ELSE b.url,
              !.parent_id = IF LacksId(b.parent_id) /\ ~LacksId(a.parent_id)
                            THEN a.parent_id ELSE b.parent_id]

\* C1: dedupe_items is idempotent: run on its own result it returns that
\* result unchanged, as a list of records.
C1_DedupeIdempotent ==
    (pc = "done" /\ pass = 2) => result = first

\* C1 witness: the re-run finished on a result that holds a merged record
\* (one that is none of the records of the original input).
C1_Witness ==
    /\ pc = "done"
    /\ pass = 2
    /\ Len(first) < Len(given)
    /\ \E i \in DOMAIN first : \A j \in DOMAIN given : first[i] # given[j]

\* C2: the output lists one record per dedup key, in the order in which the
\* keys first occur in the input, also for a key whose record was replaced.
C2_FirstSeenOrder ==
    (pc = "done" /\ pass = 1) =>
        LET fk == FirstKeys(given, <<>>)
        IN  /\ Len(result) = Len(fk)
            /\ \A i \in DOMAIN result : StatedKey(result[i]) = fk[i]

\* C2 witness: the first key's record was replaced by the third item, a
\* higher-scoring duplicate, and still comes before the second key's record.
C2_Witness ==
    /\ pc = "done"
    /\ pass = 1
    /\ Len(given) = 3
    /\ Len(result) = 2
    /\ StatedKey(given[1]) = StatedKey(given[3])
    /\ StatedKey(given[1]) # StatedKey(given[2])
    /\ StrictlyGreater(StatedScore(given[3]), StatedScore(given[1]))
    /\ result[1].slug = given[3].slug
    /\ result[1].slug # given[1].slug

\* C3: a later item under a seen key becomes the kept record iff its score is
\* strictly greater than the kept record's, inheriting name, url and parent_id
\* only where it lacks them; otherwise (ties included) the kept record stays
\* and only its empty url, empty name or missing parent_id are filled.
C3_ScoredMerge ==
    [][ (pc = "dedupe" /\ idx <= Len(items) /\ SeenHas(seen, StatedKey(items[idx]))) =>
            LET it == items[idx]
                k == StatedKey(it)
                kept == SeenGet(seen, k)
            IN  /\ SeenHas(seen', k)
                /\ SeenGet(seen', k) =
                      IF StrictlyGreater(StatedScore(it), StatedScore(kept))
                      THEN Inherit(it, kept)
                      ELSE Inherit(kept, it)
                /\ Len(seen') = Len(seen)
                /\ \A j \in DOMAIN seen : seen[j][1] # k => seen'[j] = seen[j]
      ]_vars

\* C3 witness: a later item with a strictly greater score and no name replaced
\* the kept record and inherited its name.
C3_Witness ==
    /\ pc = "done"
    /\ pass = 1
    /\ Len(given) = 2
    /\ StatedKey(given[1]) = StatedKey(given[2])
    /\ StrictlyGreater(StatedScore(given[2]), StatedScore(given[1]))
    /\ LacksText(given[2].name)
    /\ result = <<[given[2] EXCEPT !.name = given[1].name,
                                   !.parent_id = given[1].parent_id]>>
    /\ given[1].name # <<>>
    /\ given[1].parent_id # given[2].parent_id

\* C4: one record per distinct dedup key of the input, no two records with the
\* same key; all_in items with the same parent_id collapse into one record.
C4_OneRecordPerKey ==
    (pc = "done" /\ pass = 1) =>
        /\ Len(result) = Cardinality({KeyOf[given[i]] : i \in DOMAIN given})
        /\ {StatedKey(result[i]) : i \in DOMAIN result}
              = {KeyOf[given[i]] : i \in DOMAIN given}
        /\ Cardinality({StatedKey(result[i]) : i \in DOMAIN result}) = Len(result)
        /\ \A i, j \in DOMAIN result :
              (/\ result[i].type = ALL_IN /\ result[j].type = ALL_IN
               /\ ~Falsy(result[i].parent_id)
               /\ result[i].parent_id = result[j].parent_id) => i = j

\* C4 witness: two all_in items with the same parent_id but different names
\* and slugs came out as one record.
C4_Witness ==
    /\ pc = "done"
    /\ pass = 1
    /\ Len(given) = 2
    /\ given[1].type = ALL_IN /\ given[2].type = ALL_IN
    /\ ~Falsy(given[1].parent_id)
    /\ given[1].parent_id = given[2].parent_id
    /\ given[1].name # given[2].name
    /\ given[1].slug # given[2].slug
    /\ Len(result) = 1

\* C18: dedupe_items leaves its input as it was: at every point of a call
\* each record of the caller's list has the fields and values it had when
\* the call began (`given` for the first call, `first` for the re-run).
C18_InputUnchanged ==
    /\ pass = 1 => items = given
    /\ pass = 2 => items = first

\* C18 witness: the call ended after a kept copy was changed, so that a
\* returned record is none of the input's records
C18_Witness ==
    /\ pc = "done"
    /\ pass = 1
    /\ \E i \in DOMAIN result : \A j \in DOMAIN given : result[i] # given[j]
    /\ items = given

\* an absolute http(s) URL, as the score has it
StatedAbsolute(u) ==
    \/ StartsWith(Lower(Strip(OrEmpty(u))), <<"h","t","t","p",":","/","/">>)
    \/ StartsWith(Lower(Strip(OrEmpty(u))), <<"h","t","t","p","s",":","/","/">>)

\* C19: the record dedupe_items returns for a key has a score (urlQuality,
\* trimmed name length) no lower than that of any input item under the key,
\* in whatever order the items came: its url is absolute http(s) if an item
\* under the key has such a url, and its name is a str of at least one
\* character if an item under the key has such a name.
C19_ReturnedScoreIsHighest ==
    pc = "done" /\ pass = 1 =>
        \A i \in DOMAIN given :
            \E j \in DOMAIN result :
                /\ order[j] = KeyOf[given[i]]
                /\ ~StrictlyGreater(ScoreOf[given[i]], StatedScore(result[j]))
                /\ ScoreOf[given[i]][1] = 2 => StatedAbsolute(result[j].url)
                /\ ~Falsy(given[i].name) => ~Falsy(result[j].name)

\* C19 witness: a named item without an absolute url came first, an unnamed
\* item with an absolute url under the same key second, and one record with
\* both was returned
C19_Witness ==
    /\ pc = "done"
    /\ pass = 1
    /\ Len(given) = 2
    /\ Len(result) = 1
    /\ ~Falsy(given[1].name) /\ ~StatedAbsolute(given[1].url)
    /\ Falsy(given[2].name) /\ StatedAbsolute(given[2].url)
    /\ ~Falsy(result[1].name) /\ StatedAbsolute(result[1].url)

----------------------------------------------------------------------------
(* Properties of attach_lineage and of the pipeline (checked under Spec). *)
(* After AttachLineage, `given` is attach_lineage's output for `raw`.     *)

\* the cleaned parent name each output item's raw item declared ("" if none)
DeclaredParents ==
    LET interim == Interim(raw, base_url)
    IN  [i \in DOMAIN interim |->
            IF interim[i].parent = None THEN <<>> ELSE interim[i].parent]

DeclaredParent(i) == DeclaredParents[i]

IsChild(i) == given[i].type \in {SUBCATEGORY, ALL_IN}

\* the surviving category items whose name is, case-insensitively, `name`
CategoriesNamed(name) ==
    {c \in DOMAIN given : given[c].type = CATEGORY /\ Lower(given[c].name) = Lower(name)}

\* the subcategory items registered under a category with slug `cat_slug`
\* (the registries are keyed by the category's slug); decl = DeclaredParents
SubcategoriesUnder(decl, cat_slug) ==
    {s \in DOMAIN given :
        /\ given[s].type = SUBCATEGORY
        /\ \E c \in CategoriesNamed(decl[s]) : given[c].slug = cat_slug}

\* item i is linked to the record p: it carries p's slug and id as parent
LinkedTo(i, p) ==
    /\ given[i].parent_slug = given[p].slug
    /\ given[i].parent_id = given[p].id

NoParentFields(d) ==
    d.parent = Absent /\ d.parent_slug = Absent /\ d.parent_id = Absent

\* C5: no category item of attach_lineage's output, nor of dedupe_items
\* applied to it, carries a parent, parent_slug or parent_id key.
C5_CategoryHasNoParentFields ==
    /\ \A i \in DOMAIN given : given[i].type = CATEGORY => NoParentFields(given[i])
    /\ \A j \in DOMAIN seen : seen[j][2].type = CATEGORY => NoParentFields(seen[j][2])
    /\ \A i \in DOMAIN result : result[i].type = CATEGORY => NoParentFields(result[i])

\* C5 witness: a raw category that declared a parent name survived as a
\* category, and dedupe_items merged two category records.
C5_Witness ==
    /\ pc = "done"
    /\ Len(result) < Len(given)
    /\ \E i \in DOMAIN given :
          /\ given[i].type = CATEGORY
          /\ DeclaredParent(i) # <<>>
    /\ \E i \in DOMAIN result : result[i].type = CATEGORY

\* C6: every item that survives attach_lineage and dedupe_items has a
\* non-empty name and a non-empty slug.
C6_NonEmptyNameAndSlug ==
    pc = "done" =>
        \A i \in DOMAIN result : result[i].name # <<>> /\ result[i].slug # <<>>

\* C7: an all_in item whose declared parent name is the name of a subcategory
\* registered under a resolved category is linked to that subcategory.
C7_ParentNamesSubcategory ==
    pc # "lineage" =>
        LET decl == DeclaredParents
        IN  \A i \in DOMAIN given :
            given[i].type = ALL_IN =>
                LET named == {s \in DOMAIN given :
                                 /\ given[s].type = SUBCATEGORY
                                 /\ Lower(given[s].name) = Lower(decl[i])
                                 /\ \E c \in CategoriesNamed(decl[s]) :
                                        given[c].slug # <<>>}
                IN  named # {} => \E s \in named : LinkedTo(i, s)

\* the subcategories under cat_slug that the label of item i matches, by
\* lowercase name or by slug
LabelMatches(decl, i, cat_slug) ==
    LET label == normalize_all_in_name(given[i].name)[1]
    IN  {s \in SubcategoriesUnder(decl, cat_slug) :
            \/ Lower(given[s].name) = Lower(label)
            \/ given[s].slug = slugify(label)}

C9_UnresolvedKeepsParentName ==
    pc # "lineage" =>
        \A i \in DOMAIN given :
            (/\ IsChild(i)
             /\ DeclaredParent(i) # <<>>
             /\ CategoriesNamed(DeclaredParent(i)) = {}) =>
                /\ given[i].parent = DeclaredParent(i)
                /\ given[i].parent_slug = Absent
                /\ given[i].parent_id = Absent

\* C10: a subcategory or all_in item has parent_slug and parent_id, both, iff
\* its declared parent name matches a surviving category; never one alone.
C10_LinkageIffCategoryMatches ==
    pc # "lineage" =>
        \A i \in DOMAIN given :
            IsChild(i) =>
                /\ (given[i].parent_slug # Absent /\ given[i].parent_id # Absent)
                      <=> CategoriesNamed(DeclaredParent(i)) # {}
                /\ (given[i].parent_slug = Absent) <=> (given[i].parent_id = Absent)

\* the id the rules give a record, from its own type, slug and parent_slug
StatedId(d) ==
    IF d.type = <<"c","a","t","e","g","o","r","y">>
    THEN <<"c","a","t","e","g","o","r","y",":">> \o d.slug
    ELSE IF d.type = <<"s","u","b","c","a","t","e","g","o","r","y">>
    THEN <<"s","u","b","c","a","t","e","g","o","r","y",":">>
         \o (IF d.parent_slug = Absent THEN <<>> ELSE d.parent_slug) \o <<":">> \o d.slug
    ELSE <<"a","l","l","_","i","n",":">>
         \o (IF d.parent_slug = Absent THEN <<>> ELSE d.parent_slug) \o <<":">> \o d.slug

\* C11: every item attach_lineage outputs, every record dedupe_items keeps and
\* every record it returns has the id its own type, slug and parent_slug give
\* ("" for an absent parent_slug), wherever the item stood in the input.
C11_IdFromOwnFields ==
    /\ \A i \in DOMAIN given : given[i].id = StatedId(given[i])
    /\ \A j \in DOMAIN seen : seen[j][2].id = StatedId(seen[j][2])
    /\ \A i \in DOMAIN result : result[i].id = StatedId(result[i])

\* C11 witness: dedupe_items merged duplicates and returned a subcategory or
\* all_in item that carries a parent_slug
C11_Witness ==
    /\ pc = "done"
    /\ Len(result) < Len(given)
    /\ \E i \in DOMAIN result :
          /\ result[i].type \in {SUBCATEGORY, ALL_IN}
          /\ result[i].parent_slug # Absent

\* a raw item the first pass is to keep: its cleaned name is not empty and its
\* declared type, trimmed and lower-cased, is one of the three item types
Kept(r) ==
    /\ clean(r.name) # <<>>
    /\ ~Falsy(r.type)
    /\ Lower(Strip(r.type)) \in { <<"c","a","t","e","g","o","r","y">>,
                                  <<"s","u","b","c","a","t","e","g","o","r","y">>,
                                  <<"a","l","l","_","i","n">> }

\* for each raw item of the input universe: whether the first pass is to keep
\* it, and the name and type its record is to have
IsKept == [r \in RawItems |-> Kept(r)]
KeptName == [r \in RawItems |-> clean(r.name)]
KeptType == [r \in RawItems |-> IF Falsy(r.type) THEN None ELSE Lower(Strip(r.type))]

\* C12: attach_lineage outputs one record for each raw item with a non-empty
\* cleaned name and a recognized type, in input order (each record under the
\* cleaned name of its raw item, with the declared type or all_in), and
\* nothing else.
C12_OrderPreservingOverSurvivors ==
    pc # "lineage" =>
        LET kept == SelectSeq(raw, LAMBDA r : IsKept[r])
        IN  /\ Len(given) = Len(kept)
            /\ \A i \in DOMAIN given :
                  /\ given[i].name = KeptName[kept[i]]
                  /\ given[i].type \in {KeptType[kept[i]], ALL_IN}

\* C12 witness: a raw item was dropped from between two survivors that have
\* different names
C12_Witness ==
    /\ pc # "lineage"
    /\ Len(raw) = 3
    /\ Len(given) = 2
    /\ ~Kept(raw[2])
    /\ given[1].name # given[2].name

\* the all-in heuristic as stated: the cleaned name begins with "all in"
\* (whatever its case), or the href contains a root hint
StatedAllIn(r) ==
    \/ StartsWith(Lower(clean(r.name)), <<"a","l","l"," ","i","n">>)
    \/ /\ ~Falsy(r.href)
       /\ \E frag \in ROOT_HINTS : Contains(r.href, frag)

\* C13: every raw item attach_lineage keeps whose cleaned name begins with
\* "all in" or whose href contains a root hint comes out with the type all_in,
\* so no category or subcategory item of the output matches the heuristic.
C13_AllInHeuristicNeverCategory ==
    pc # "lineage" =>
        LET kept == SelectSeq(raw, Kept)
        IN  \A i \in DOMAIN given :
                i <= Len(kept) /\ StatedAllIn(kept[i]) => given[i].type = ALL_IN

\* C13 read with the word boundary of _RE_ALL_IN: the cleaned name begins with
\* "all in" and the next character, if any, is not a letter, a digit or an
\* underscore
WholeWordAllIn(r) ==
    LET n == clean(r.name)
    IN  \/ /\ StartsWith(Lower(n), <<"a","l","l"," ","i","n">>)
           /\ (Len(n) = 6 \/ ~IsWord(n[7]))
        \/ /\ ~Falsy(r.href)
           /\ \E frag \in ROOT_HINTS : Contains(r.href, frag)

C13_WholeWordAllIn ==
    pc # "lineage" =>
        LET kept == SelectSeq(raw, Kept)
        IN  \A i \in DOMAIN given :
                i <= Len(kept) /\ WholeWordAllIn(kept[i]) => given[i].type = ALL_IN

----------------------------------------------------------------------------
(* Properties of parse_directory and of the pipeline on a page (checked     *)
(* under SpecParse).                                                        *)

\* the block the next ParseBlock step reads
ThisBlock == html.found[Chosen(html)][blk]

\* a block whose title is resolved: some title candidate has text that is not
\* all whitespace
Titled(block) ==
    \E i \in DOMAIN block.titles :
        ~Falsy(block.titles[i]) /\ Range(block.titles[i]) \ Whitespace # {}

\* the all-in detection rules as stated: the text, the aria-label or the
\* title contains "all in" in any case, or the href contains a root hint
PassesDetection(a) ==
    \/ Contains(Lower(a.text), <<"a","l","l"," ","i","n">>)
    \/ ~Falsy(a.aria_label) /\ Contains(Lower(a.aria_label), <<"a","l","l"," ","i","n">>)
    \/ ~Falsy(a.title) /\ Contains(Lower(a.title), <<"a","l","l"," ","i","n">>)
    \/ \E frag \in ROOT_HINTS : Contains(a.href, frag)

\* the distinct (href, text) pairs among the anchors of a block that pass
QualifyingPairs(block) ==
    {<<block.anchors[i].href, _clean_text(block.anchors[i].text)>> :
        i \in {j \in DOMAIN block.anchors : PassesDetection(block.anchors[j])}}

\* the items a step appended to raw
Appended == SubSeq(raw', Len(raw) + 1, Len(raw'))

\* C14: the step of a titled block appends exactly one all_in item for each
\* distinct (href, text) pair among its anchors that pass the detection
\* rules, so two passing anchors with one href and different texts give two.
C14_OneAllInPerHrefTextPair ==
    [][pc = "blocks" /\ blk' = blk + 1 /\ Titled(ThisBlock) =>
          /\ Len(SelectSeq(Appended, LAMBDA r : r.type = ALL_IN))
                = Cardinality(QualifyingPairs(ThisBlock))
          /\ \A pr \in QualifyingPairs(ThisBlock) :
                \E i \in DOMAIN Appended :
                    /\ Appended[i].type = ALL_IN
                    /\ Appended[i].href = pr[1]
                    /\ pr[2] # <<>> => Appended[i].name = pr[2]]_vars

\* C15: every all_in item parse_directory has emitted has a name that
\* contains "all in" in any case.
C15_AllInNameContainsAllIn ==
    \A i \in DOMAIN raw :
        raw[i].type = ALL_IN =>
            Contains(Lower(raw[i].name), <<"a","l","l"," ","i","n">>)

\* the category items before position i of the output
CategoriesBefore(i) == {j \in 1..(i - 1) : raw[j].type = CATEGORY}

\* C16: every subcategory or all_in item parse_directory has emitted comes
\* after a category item, and its parent is the name of the closest one
\* before it; the step of a block without a resolved title emits nothing.
C16_ChildrenFollowTheirCategory ==
    /\ [](\A i \in DOMAIN raw :
             raw[i].type # CATEGORY =>
                 /\ CategoriesBefore(i) # {}
                 /\ \E j \in CategoriesBefore(i) :
                       /\ \A k \in CategoriesBefore(i) : k <= j
                       /\ raw[i].parent = raw[j].name)
    /\ [][pc = "blocks" /\ blk' = blk + 1 /\ ~Titled(ThisBlock) => raw' = raw]_vars

\* C16 witness: the page has a block without a resolved title, and the parser
\* returned a category with a child after it
C16_Witness ==
    /\ pc = "lineage"
    /\ Chosen(html) # 0
    /\ \E b \in DOMAIN html.found[Chosen(html)] : ~Titled(html.found[Chosen(html)][b])
    /\ \E i, j \in DOMAIN raw :
          /\ i < j
          /\ raw[i].type = CATEGORY
          /\ raw[j].type # CATEGORY

\* a page parse_directory gives up on at once: it is empty, has no "<", or no
\* profile finds a block in it
GivenUp(page) ==
    \/ Falsy(page.text)
    \/ "<" \notin Range(page.text)
    \/ \A p \in Profiles : page.found[p] = <<>>

\* C17: on a page that is empty, has no "<" or matches no profile,
\* parse_directory returns the empty list at once; attach_lineage returns the
\* empty list for an empty raw list, and dedupe_items for an empty item list.
C17_EmptyInEmptyOut ==
    /\ [][pc = "parse" /\ GivenUp(html) => pc' = "lineage" /\ raw' = <<>>]_vars
    /\ [](pc \in {"dedupe", "done"} /\ raw = <<>> => given = <<>>)
    /\ [](pc = "done" /\ given = <<>> => result = <<>>)

\* C17 witness: the pipeline ran to its end on a page without a tag
C17_Witness ==
    /\ pc = "done"
    /\ html.text # None
    /\ "<" \notin Range(html.text)
    /\ result = <<>>

----------------------------------------------------------------------------
(* Properties of canonicalize (checked under SpecUrl) *)

\* C20: canonicalize is idempotent on its own output: when
\* canonicalize(base, href) is an absolute http(s) URL u, canonicalize(base', u)
\* is u again, for every base'.
C20_CanonicalizeIdempotent ==
    pc = "stable" => url2 = url1

\* the deny set of tracking parameters, as the claim lists it
StatedDenyKeys ==
    { <<"g","c","l","i","d">>, <<"f","b","c","l","i","d">>,
      <<"m","c","_","c","i","d">>, <<"m","c","_","e","i","d">>,
      <<"r","e","f">>, <<"r","e","f","_","s","r","c">>, <<"r","e","f","_","u","r","l">>,
      <<"_","h","s","e","n","c">>, <<"_","h","s","m","i">> }

StatedDenied(k) ==
    \/ Lower(k) \in StatedDenyKeys
    \/ StartsWith(Lower(k), <<"u","t","m","_">>)
    \/ StartsWith(Lower(k), <<"h","s","a","_">>)

\* what a piece of query text stands for: "+" is a space, an escaped ASCII
\* byte is its character, and every other byte is itself, written as its
\* escape in upper case
RECURSIVE StatedValue(_)
StatedValue(s) ==
    IF s = <<>> THEN <<>>
    ELSE IF IsEscape(s)
         THEN <<ByteEscapes[CHOOSE k \in DOMAIN ByteEscapes :
                    ByteEscapes[k][2] = <<UpperChar(s[2]), UpperChar(s[3])>>][1]>>
              \o StatedValue(From(s, 4))
    ELSE IF IsHighByte(s)
         THEN <<"%", UpperChar(s[2]), UpperChar(s[3])>> \o StatedValue(From(s, 4))
    ELSE IF Head(s) = "+" THEN <<" ">> \o StatedValue(Tail(s))
    ELSE IF \E k \in DOMAIN Utf8Escapes : Utf8Escapes[k][1] = Head(s)
         THEN Utf8Escapes[CHOOSE k \in DOMAIN Utf8Escapes : Utf8Escapes[k][1] = Head(s)][2]
              \o StatedValue(Tail(s))
    ELSE <<Head(s)>> \o StatedValue(Tail(s))

\* the query text of a URL: what lies between its first "?" and its "#"
StatedQuery(u) ==
    LET h == Find(u, {"#"})
        nofrag == IF h = 0 THEN u ELSE SubSeq(u, 1, h - 1)
        q == Find(nofrag, {"?"})
    IN  IF q = 0 THEN <<>> ELSE From(nofrag, q + 1)

\* the parameters of a query text, in order, as <<key, value>>
StatedParams(query) ==
    LET pieces == SelectSeq(Split(query, "&"), LAMBDA piece : piece # <<>>)
    IN  [i \in DOMAIN pieces |->
            LET e == Find(pieces[i], {"="})
            IN  IF e = 0 THEN <<StatedValue(pieces[i]), <<>>>>
                ELSE <<StatedValue(SubSeq(pieces[i], 1, e - 1)),
                       StatedValue(From(pieces[i], e + 1))>>]

\* the URL an href resolves to: itself when it has a scheme, https: before a
\* protocol-relative one, joined to the base otherwise; None when it does not
\* resolve
StatedResolved(base, href0) ==
    LET href == IF Falsy(href0) THEN <<>> ELSE Strip(href0)
    IN  IF href = <<>> THEN None
        ELSE IF urlparse(href).scheme # <<>> THEN href
        ELSE IF StartsWith(href, <<"/","/">>) THEN HTTPS \o <<":">> \o href
        ELSE IF Falsy(base) THEN None
        ELSE urljoin(base, href)

ResolvesToHttp(base, href0) ==
    /\ StatedResolved(base, href0) # None
    /\ Lower(urlparse(StatedResolved(base, href0)).scheme) \in {HTTP, HTTPS}

\* C21: for an href that resolves to an http(s) URL, canonicalize drops the
\* fragment and removes exactly the query parameters whose lower-cased key is in
\* the deny set or starts with utm_ or hsa_; every other parameter, also one
\* with an empty value, is kept with its value and in its original order.
C21_TrackingParametersRemoved ==
    (pc # "canon" /\ url1 # Raised /\ ResolvesToHttp(base_url, href_arg)) =>
        /\ "#" \notin Range(url1)
        /\ StatedParams(StatedQuery(url1))
             = SelectSeq(StatedParams(StatedQuery(StatedResolved(base_url, href_arg))),
                         LAMBDA kv : ~StatedDenied(kv[1]))

\* the scheme an href is written with, in lower case: the letters, digits,
\* "+", "-" and "." before its first ":" when they start with a letter
StatedScheme(h) ==
    LET i == Find(h, {":"})
    IN  IF i > 1 /\ h[1] \in AsciiAlpha /\ \A k \in 1..(i - 1) : h[k] \in SchemeChars
        THEN Lower(SubSeq(h, 1, i - 1))
        ELSE <<>>

\* the href as canonicalize trims it, "" for an absent one
Trimmed(href0) == IF Falsy(href0) THEN <<>> ELSE Strip(href0)

StatedRelative(h) ==
    h # <<>> /\ StatedScheme(h) = <<>> /\ ~StartsWith(h, <<"/","/">>)

\* the three degraded results the claim names, without the "never raises" part
DegradesByValue ==
    pc # "canon" =>
        /\ Trimmed(href_arg) = <<>> => url1 = <<>>
        /\ (StatedRelative(Trimmed(href_arg)) /\ Falsy(base_url)) => url1 = <<>>
        /\ StatedScheme(Trimmed(href_arg)) \notin {<<>>, HTTP, HTTPS}
              => url1 = Trimmed(href_arg)

\* C22: canonicalize never raises and degrades by value: it returns "" when
\* href is absent, empty or only whitespace, "" when href is relative and base
\* is absent or empty, and the trimmed href unchanged when its scheme is not
\* http or https.
C22_CanonicalizeNeverRaises ==
    /\ pc # "canon" => url1 # Raised
    /\ DegradesByValue

----------------------------------------------------------------------------
(* Properties of clean and slugify (checked under SpecText) *)

\* slugify alone: it returns a string, "" for an empty or absent value, and
\* returns its own result unchanged
SlugifyIdempotent ==
    /\ pc \in {"reslugify", "text_done"} =>
          /\ slug1 # None
          /\ Falsy(text_in) => slug1 = <<>>
    /\ pc = "text_done" => slug2 = slug1

\* C23: clean and slugify are idempotent and total: clean(clean(x)) = clean(x)
\* and slugify(slugify(x)) = slugify(x) for every string x and for an empty
\* or absent x, which both map to "".
C23_CleanAndSlugifyIdempotent ==
    /\ pc # "clean" =>
          /\ clean1 # None
          /\ Falsy(text_in) => clean1 = <<>>
    /\ pc \notin {"clean", "reclean"} => clean2 = clean1
    /\ SlugifyIdempotent

----------------------------------------------------------------------------
(* Properties of run_build (checked under SpecRun and SpecBody) *)

\* the fetch step fails: the fixture path is empty or names no file, or the
\* file is empty
FetchFailed == fixture.kind # "file" \/ Falsy(fixture.page.text)

\* C24: run_build always ends by returning an exit code and never by raising:
\* 0 when the fixture is fetched, the document validates and the taxonomy and
\* choices files are written, 2 on any failure of the fetch or validation
\* step, for every profile and every fixture path.
C24_RunBuildReturnsExitCode ==
    pc = "exited" =>
        /\ exc = None
        /\ exit_code \in {0, 2}
        /\ exit_code = 0 <=> (~FetchFailed /\ validation = "ok"
                                /\ written = <<"taxonomy", "choices">>)
        /\ (FetchFailed \/ validation = "failed") => exit_code = 2

\* the part of C25 on the order of the steps: an output file is written only
\* once validation has succeeded, no file is written when the fetch or the
\* validation fails, and the metrics are flushed before the block is left
WritesFollowValidation ==
    /\ written # <<>> => validation = "ok"
    /\ (FetchFailed \/ validation = "failed") => written = <<>>
    /\ pc = "exited" => Len(flushed) = 1

----------------------------------------------------------------------------
(* Properties of next_sleep (checked under SpecBackoff) *)

\* every call that returned gave a sleep within [0, cap], 0 when cap <= 0
SleepWithinCap ==
    \A i \in DOMAIN delays :
        delays[i].raised = None =>
            /\ 0 <= delays[i].value
            /\ delays[i].value <= max(cap_arg, 0)

\* for one draw, the sleeps returned for successive retry counts never decrease
SleepNonDecreasing ==
    \A i, k \in DOMAIN delays :
        (i < k /\ delays[k].raised = None) => delays[i].value <= delays[k].value

\* C26: next_sleep returns a value within [0, cap] (0 when cap <= 0) for every
\* retry count, base, cap, jitter strategy and draw, and for a fixed draw the
\* returned sleep is non-decreasing in the retry count.
C26_NextSleepWithinCapAndMonotone ==
    /\ \A i \in DOMAIN delays : delays[i].raised = None
    /\ SleepWithinCap
    /\ SleepNonDecreasing

----------------------------------------------------------------------------
(* Properties of RateLimiter (checked under SpecLimiter) and of the module's *)
(* limiter (checked under SpecGlobal)                                        *)

\* the token count of every bucket is within [0, capacity]
TokensWithinCapacity ==
    \A k \in DOMAIN limiters :
        /\ 0 <= limiters[k].tokens
        /\ limiters[k].tokens <= limiters[k].capacity

\* a try_acquire that returned 0.0 removed one whole token from the refilled
\* bucket; one that returned a positive wait left the refilled count as it was
ZeroIffTokenTaken ==
    \A t \in Threads :
        threads[t].at \in {"idle", "sleep"} /\ threads[t].op # "none" =>
            /\ threads[t].wait >= 0
            /\ threads[t].wait = 0 <=> threads[t].left = threads[t].refilled - OneToken
            /\ threads[t].wait > 0 => threads[t].left = threads[t].refilled

\* a limiter granted no more than burst + rps * elapsed tokens
GrantsWithinRate ==
    \A k \in DOMAIN limiters :
        limiters[k].granted * OneToken
            <= limiters[k].capacity + ((clock - limiters[k].born) * limiters[k].rps) \div 5

\* C27: under any interleaving of try_acquire and acquire calls from concurrent
\* threads, the token count stays within [0, capacity], try_acquire returns 0.0
\* exactly when it removed one whole token and otherwise leaves the count
\* unchanged and returns a positive wait, and the granted acquisitions never
\* exceed burst plus rps times the elapsed time.
C27_RateLimiterThreadSafe ==
    /\ TokensWithinCapacity
    /\ ZeroIffTokenTaken
    /\ GrantsWithinRate

\* both threads were in the limiter, one of them with a time read before the
\* other's refill, a token was granted and a positive wait was returned
C27_Witness ==
    /\ \E t \in Threads : threads[t].stale /\ threads[t].at = "idle"
    /\ \E t \in Threads : threads[t].wait > 0 /\ threads[t].op = "try_acquire"
                           /\ threads[t].at = "idle"
    /\ \E t \in Threads : threads[t].op = "acquire" /\ threads[t].at = "idle"
                           /\ threads[t].wait = 0
    /\ limiters[1].granted > limiters[1].capacity \div OneToken
    /\ pc = "limiter"

\* the tokens the first k limiters handed out
RECURSIVE GrantedBy(_)
GrantedBy(k) == IF k = 0 THEN 0 ELSE limiters[k].granted + GrantedBy(k - 1)

\* C28: the threads that call the module's acquire() draw from one shared
\* limiter: one RateLimiter serves all of them, so at most the default burst
\* of 5 acquisitions are granted before any refill time has elapsed.
C28_OneSharedLimiter ==
    pc = "limiter" /\ _GLOBAL # 0 /\ clock = 0 =>
        /\ Len(limiters) = 1
        /\ GrantedBy(Len(limiters)) <= 5

----------------------------------------------------------------------------
(* Properties of the ids of the pipeline (checked under SpecLineage) *)

\* C29: the ids in the final item list are pairwise distinct: no two records of
\* dedupe_items(attach_lineage(xs)) have the same id.
C29_FinalIdsDistinct ==
    pc = "done" /\ pass = 1 =>
        \A i, k \in DOMAIN result : result[i].id = result[k].id => i = k

\* the permutations of 1 .. n
Perms(n) == {f \in [1 .. n -> 1 .. n] : \A i, k \in 1 .. n : f[i] = f[k] => i = k}

\* the list rs in the order f
Shuffled(rs, f) == [j \in DOMAIN rs |-> rs[f[j]]]

\* the place in attach_lineage's output of the record of raw item i of rs
PlaceOf(rs, base, i) == Len(Interim(SubSeq(rs, 1, i), base))

\* the records of attach_lineage(qs), where qs is `raw` in the order f, carry
\* the id, parent_slug and parent_id the same raw items have in `given`
SameLineage(qs, out, f) ==
    \A j \in DOMAIN qs :
        FirstPass[base_url][qs[j]] # <<>> =>
            LET a == out[PlaceOf(qs, base_url, j)]
                b == given[PlaceOf(raw, base_url, f[j])]
            IN  /\ a.id = b.id
                /\ a.parent_slug = b.parent_slug
                /\ a.parent_id = b.parent_id

\* C30: parent resolution in attach_lineage does not depend on input order:
\* each raw item receives the same id, parent_slug and parent_id under every
\* permutation of the input list.
C30_LineageOrderIndependent ==
    pc # "lineage" =>
        \A f \in Perms(Len(raw)) :
            SameLineage(Shuffled(raw, f), attach_lineage(Shuffled(raw, f), base_url), f)

\* an all_in item came before the subcategory it was linked to, and that
\* subcategory before the category it was linked to
C30_Witness ==
    /\ pc = "done"
    /\ \E i, k, c \in DOMAIN given :
          /\ i < k /\ k < c
          /\ raw[i].type = ALL_IN /\ given[i].parent_id = given[k].id
          /\ raw[k].type = SUBCATEGORY /\ given[k].parent_id = given[c].id
          /\ raw[c].type = CATEGORY

====
